---- MODULE Spec2Model ----
(***************************************************************************)
(* Model of the disk-backed store (package disk): transactions, the writer *)
(* mutex and the reader/writer lock, the trigger registry, and the mapping *)
(* of the /data document onto keys of the key-value engine.                *)
(***************************************************************************)
EXTENDS Integers, Sequences, FiniteSets, TLC

(***************************************************************************)
(* Bounds of the model.                                                    *)
(***************************************************************************)
\* number of transaction ids the store hands out (Store.xid)
MaxXid == 4
\* number of trigger handles that Register allocates
MaxHandles == 2
\* number of writes that change its staged content a transaction makes in
\* SpecData
MaxWrites == 1

Threads == {"t1", "t2", "t3"}
\* the thread whose calls and their results are recorded in ret
Observed == "t1"
Handles == 1..MaxHandles
Xids == 1..MaxXid

(***************************************************************************)
(* Values.  A JSON value is the set of its leaves <<path, atom>>; a scalar *)
(* is a single leaf at the empty path, the empty object is the leaf        *)
(* EmptyObj.  Arrays are atoms.  No leaf path is a prefix of another.      *)
(***************************************************************************)
EmptyObj == "{}"
\* a Go value that is no JSON value yet: encoding/json writes it as 2
NativeTwo == "int(2)"
\* a non-finite number: encoding/json refuses it
NonFinite == "NaN"

OK == "OK"
NotFoundErr == "NOT_FOUND"
InvalidTransactionErr == "INVALID_TRANSACTION"
InvalidValueErr == "INVALID_VALUE"
EngineErr == "ENGINE"
InternalErr == "INTERNAL"
Panic == "PANIC"

AddOp == "add"
ReplaceOp == "replace"
RemoveOp == "remove"

Scalar(a) == {<<<< >>, a>>}
Field(k, v) == {<<(<<k>> \o l[1]), l[2]>> : l \in v}

IsPrefix(p, q) == Len(p) <= Len(q) /\ SubSeq(q, 1, Len(p)) = p
Rest(q, n) == SubSeq(q, n + 1, Len(q))
MaxOf(S) == CHOOSE m \in S : \A n \in S : n <= m

\* util.RoundTrip: marshal to JSON and unmarshal again.  Fails on a value
\* JSON cannot carry, and turns native numbers into JSON numbers.
Canonical(a) == IF a = NativeTwo THEN "2" ELSE a
RoundTrip(v) ==
    IF \E l \in v : l[2] = NonFinite
    THEN [err |-> InvalidValueErr, val |-> v]
    ELSE [err |-> OK, val |-> {<<l[1], Canonical(l[2])>> : l \in v}]

(***************************************************************************)
(* Partition trie and path mapper.                                         *)
(***************************************************************************)
pathWildcard == "*"
systemPartition == <<"system", pathWildcard>>

\* the trie has a node for p: p is a prefix of a match of some pattern
InTrie(parts, p) ==
    \/ p = << >>
    \/ \E q \in parts : /\ Len(q) >= Len(p)
                        /\ \A j \in 1..Len(p) : q[j] \in {pathWildcard, p[j]}

\* number of leading segments of p that make up the key
SplitDepth(parts, p) ==
    IF InTrie(parts, p)
    THEN Len(p)
    ELSE 1 + MaxOf({d \in 0..(Len(p) - 1) : InTrie(parts, SubSeq(p, 1, d))})

DataPath2Key(p) == <<"data">> \o p
DataPrefix2Key(p) == <<"data">> \o p
DataKey2Path(k) == Rest(k, 1)
PolicyKey(id) == <<"policies", id>>

(***************************************************************************)
(* The key-value engine: a set of <<key, path inside the value, atom>>.    *)
(***************************************************************************)
Get(kv, k) == {<<u[2], u[3]>> : u \in {w \in kv : w[1] = k}}
SetKey(kv, k, v) == {u \in kv : u[1] # k} \cup {<<k, l[1], l[2]>> : l \in v}
DeleteKey(kv, k) == {u \in kv : u[1] # k}
Iterate(kv, prefix) == {u \in kv : IsPrefix(prefix, u[1])}

\* the logical path of a stored leaf
Logical(u) == DataKey2Path(u[1]) \o u[2]
\* the key and the place inside its value where the leaf at path p goes
Shard(parts, p, a) ==
    LET d == SplitDepth(parts, p)
    IN  <<DataPath2Key(SubSeq(p, 1, d)), Rest(p, d), a>>

(***************************************************************************)
(* transaction.Read / Write and the policy operations on a view of the     *)
(* engine.                                                                 *)
(***************************************************************************)
txnRead(view, parts, p) ==
    IF InTrie(parts, p)
    THEN \* keys fan out beneath p: iterate the prefix and reconstruct
         LET items == Iterate(view, DataPrefix2Key(p))
         IN  IF items = {}
             THEN [err |-> NotFoundErr, val |-> {}]
             ELSE [err |-> OK,
                   val |-> {<<Rest(Logical(u), Len(p)), u[3]>> : u \in items}]
    ELSE \* p is at or below a split point: one Get, then descend
         LET d == SplitDepth(parts, p)
             r == Rest(p, d)
             v == Get(view, DataPath2Key(SubSeq(p, 1, d)))
             sub == {l \in v : IsPrefix(r, l[1])}
         IN  IF sub = {}
             THEN [err |-> NotFoundErr, val |-> {}]
             ELSE [err |-> OK, val |-> {<<Rest(l[1], Len(r)), l[2]>> : l \in sub}]

\* a Write that stores the value whole at the key of its path
txnWriteUnsharded(view, parts, op, p, v) ==
    LET exists == txnRead(view, parts, p).err = OK
        \* leaves stored at a proper prefix of p
        anc == {u \in Iterate(view, DataPrefix2Key(<< >>)) :
                    Len(Logical(u)) < Len(p) /\ IsPrefix(Logical(u), p)}
        base == view \ anc
    IN  IF op \in {RemoveOp, ReplaceOp} /\ ~exists
        THEN [err |-> NotFoundErr, view |-> view]
        ELSE IF \E u \in anc : u[3] # EmptyObj
        THEN [err |-> NotFoundErr, view |-> view]
        ELSE IF InTrie(parts, p)
        THEN LET cleared == base \ Iterate(base, DataPrefix2Key(p))
             IN  [err |-> OK,
                  view |-> IF op = RemoveOp
                           THEN cleared
                           ELSE cleared \cup {<<DataPath2Key(p), l[1], l[2]>> : l \in v}]
        ELSE LET d == SplitDepth(parts, p)
                 k == DataPath2Key(SubSeq(p, 1, d))
                 r == Rest(p, d)
                 kept == {l \in Get(base, k) : ~IsPrefix(r, l[1])}
                 parent == SubSeq(r, 1, Len(r) - 1)
                 marker == IF \E l \in kept : IsPrefix(parent, l[1])
                           THEN {}
                           ELSE {<<parent, EmptyObj>>}
             IN  [err |-> OK,
                  view |-> IF op = RemoveOp
                           THEN IF r = << >>
                                THEN DeleteKey(base, k)
                                ELSE SetKey(base, k, kept \cup marker)
                           ELSE SetKey(base, k,
                                       kept \cup {<<r \o l[1], l[2]>> : l \in v})]

txnWrite(view, parts, op, p, v) ==
    LET exists == txnRead(view, parts, p).err = OK
        \* leaves stored at a proper prefix of p
        anc == {u \in Iterate(view, DataPrefix2Key(<< >>)) :
                    Len(Logical(u)) < Len(p) /\ IsPrefix(Logical(u), p)}
        base == view \ anc
    IN  IF op \in {RemoveOp, ReplaceOp} /\ ~exists
        THEN [err |-> NotFoundErr, view |-> view]
        ELSE IF \E u \in anc : u[3] # EmptyObj
        THEN [err |-> NotFoundErr, view |-> view]
        ELSE IF InTrie(parts, p)
        THEN LET cleared == base \ Iterate(base, DataPrefix2Key(p))
             IN  [err |-> OK,
                  view |-> IF op = RemoveOp
                           THEN cleared
                           ELSE cleared \cup {Shard(parts, p \o l[1], l[2]) : l \in v}]
        ELSE LET d == SplitDepth(parts, p)
                 k == DataPath2Key(SubSeq(p, 1, d))
                 r == Rest(p, d)
                 kept == {l \in Get(base, k) : ~IsPrefix(r, l[1])}
                 parent == SubSeq(r, 1, Len(r) - 1)
                 marker == IF \E l \in kept : IsPrefix(parent, l[1])
                           THEN {}
                           ELSE {<<parent, EmptyObj>>}
             IN  [err |-> OK,
                  view |-> IF op = RemoveOp
                           THEN IF r = << >>
                                THEN DeleteKey(base, k)
                                ELSE SetKey(base, k, kept \cup marker)
                           ELSE SetKey(base, k,
                                       kept \cup {<<r \o l[1], l[2]>> : l \in v})]

txnGetPolicy(view, id) ==
    LET v == Get(view, PolicyKey(id))
    IN  IF v = {} THEN [err |-> NotFoundErr, val |-> {}] ELSE [err |-> OK, val |-> v]
txnUpsertPolicy(view, id, bs) == SetKey(view, PolicyKey(id), Scalar(bs))
txnDeletePolicy(view, id) == DeleteKey(view, PolicyKey(id))
\* the ids of the items found by iterating the policies prefix, one entry
\* per item
RECURSIVE IdsOf(_)
IdsOf(items) ==
    IF items = {} THEN << >>
    ELSE LET u == CHOOSE w \in items : TRUE
         IN  <<u[1][2]>> \o IdsOf(items \ {u})
txnListPolicies(view) == IdsOf(Iterate(view, <<"policies">>))

(***************************************************************************)
(* The store.                                                              *)
(***************************************************************************)
VARIABLES
    db,          \* Store.db: the committed content of the engine
    partitions,  \* Store.partitions
    wmu,         \* Store.wmu: TRUE when locked
    rmu,         \* Store.rmu: [w |-> write-locked, r |-> number of read shares]
    xid,         \* Store.xid
    txns,        \* the transactions handed out, by id
    triggers,    \* Store.triggers
    nhandles,    \* number of handles allocated by Register
    pc,          \* where each thread is
    cur,         \* the transaction each thread holds (0: one of another store)
    rtx,         \* the read-only transaction of the commit a thread runs
    todo,        \* handles the dispatch loop of a thread has yet to visit
    ret,         \* what the last call of the observed thread returned
    fired,       \* fired[x][h]: calls of handle h at the commit of x
    ncommit,     \* number of successful engine commits of write transactions
    hReg,        \* hReg[h]: ncommit when h was registered
    hUnreg,      \* hUnreg[h]: ncommit when h was unregistered (-1: never)
    life,        \* the engine handle, Store.gcTicker, Store.close, the GC goroutine
    meta,        \* the metadata persisted under metadataKey
    mgr,         \* the plugin manager that uses the store
    dl,          \* the Downloader and the callers of its Stop
    pkg,         \* the bundle package file of the persistence directory
    agg,         \* the last call of an aggregate builtin: operand and result
    disc         \* the plugins discovery has registered with the manager

vars == <<db, partitions, wmu, rmu, xid, txns, triggers, nhandles, pc, cur, rtx,
          todo, ret, fired, ncommit, hReg, hUnreg, life, meta, mgr,
          dl, pkg, agg, disc>>
\* what only New and Close change
openVars == <<partitions, life, meta>>
\* what the store and the manager leave alone
bundleVars == <<dl, pkg, agg, disc>>

NoWrite == [op |-> "", p |-> << >>, v |-> {}]
\* A transaction: write, st (none, opening, open, stale), view (what it reads
\* and has staged).  History kept for the properties: base (the engine's
\* content when it was opened), seq (ncommit then), sdone (commits whose
\* Commit had returned when NewTransaction was called), lw (its last write,
\* cleared when it ends without a commit), nw (its writes that changed view),
\* cseq (the number of its engine commit), result (the engine's content
\* after it), trg (the registry then), done (its Commit returned nil).  pol:
\* its staged change log holds a policy change, which the event of its
\* commit reports to the triggers.  reg: the handles Register returned for it.
NoTxn == [write |-> FALSE, st |-> "none", base |-> {}, view |-> {}, seq |-> 0,
          sdone |-> 0, lw |-> NoWrite, nw |-> 0, cseq |-> 0, result |-> {}, trg |-> {},
          done |-> FALSE, pol |-> FALSE, reg |-> {}]
\* a call's record: op, x (its transaction), err, val (the value returned, or
\* the bytes given to UpsertPolicy), p (the path or id given, or the ids
\* ListPolicies returned), wop (the operation given to Write)
NoRet == [op |-> "", x |-> 0, err |-> OK, val |-> {}, p |-> << >>, wop |-> ""]
Ret(op, x, err, val, p, wop) ==
    [op |-> op, x |-> x, err |-> err, val |-> val, p |-> p, wop |-> wop]

supportedSchemaVersion == 1
basePartitionVersion == 1
\* the metadata structure; found: the engine holds one under metadataKey
NoMeta == [found |-> FALSE, schema_version |-> 0, partition_version |-> 0,
           partitions |-> {}]
metadata(parts) ==
    [found |-> TRUE, schema_version |-> supportedSchemaVersion,
     partition_version |-> basePartitionVersion, partitions |-> parts]

\* life: engine (the badger handle: closed, open), ticker (Store.gcTicker:
\* none, running, stopped), close (the channel Store.close: open, closed),
\* gc (the goroutine of Store.GC: none, select, run: about to call
\* RunValueLogGC, exited), leaked (the goroutine of an earlier store is still
\* there), tick (a tick is waiting in the channel gcTicker.C)
NoStore == [engine |-> "closed", ticker |-> "none", close |-> "open",
            gc |-> "none", leaked |-> FALSE, tick |-> FALSE]
Started == [engine |-> "open", ticker |-> "running", close |-> "open",
            gc |-> "select", leaked |-> FALSE, tick |-> FALSE]

\* the Manager: pc (where Start is), txn (the transaction of line 99),
\* compiler (Manager.Compiler: the modules it was compiled from, as stored),
\* handle (the trigger Start registered), err (what Start returned)
NoCompiler == {<<<< >>, "nil">>}
NoMgr == [pc |-> "new", txn |-> 0, compiler |-> NoCompiler, handle |-> 0, err |-> OK]

\* the Downloader: pc (where the goroutine of loop is: new, oneShot,
\* callback, select, ack, exited), f (a callback is set), etag
\* (Downloader.etag), retry (the counter of loop), cancelled (cancel() of the
\* loop's context was called), res (what download returned), cberr (what
\* the callback returned), delay (the timer of loop: poll, or backoff with
\* the retry count it was computed from), inm (the If-None-Match header of
\* the last request), attempted (a request was made), fails (the downloads
\* that have failed in a row), stop (where each call
\* of Stop is), done (the call whose channel loop received)
Stoppers == {"s1", "s2"}
NoResult == [bundle |-> FALSE, etag |-> "", err |-> OK]
NoDelay == [kind |-> "none", retry |-> 0]
NoDownloader ==
    [pc |-> "new", f |-> FALSE, etag |-> "", retry |-> 0, cancelled |-> FALSE,
     res |-> NoResult, cberr |-> OK, delay |-> NoDelay, inm |-> "",
     attempted |-> FALSE, fails |-> 0, stop |-> [s \in Stoppers |-> "idle"],
     done |-> "s1"]

\* the persistence directory: file (bundlePackage.json: exists, data: its
\* characters), saved (the arguments of the last SaveBundleToDisk that
\* returned nil), serr (what the last SaveBundleToDisk returned), loaded
\* (what the last LoadBundleFromDisk returned; found: the bundle is not nil)
NoFile == [exists |-> FALSE, data |-> << >>]
NoSaved == [ok |-> FALSE, bundle |-> << >>, etag |-> << >>]
NoLoaded == [called |-> FALSE, err |-> OK, found |-> FALSE, bundle |-> << >>,
             etag |-> << >>]
NoPkg == [file |-> NoFile, serr |-> OK, saved |-> NoSaved, loaded |-> NoLoaded]

\* no aggregate builtin has been called
NoCall == [op |-> "", a |-> << >>, defined |-> FALSE, v |-> << >>]
\* the plugins of the manager that discovery looks up, by name: registered
\* (Manager.Register was called), started (Start was called), reconfigured
\* (Reconfigure was called), early (Reconfigure was called before Start)
PluginNames == {"bundle", "decision_logs", "status"}
NoPlugin == [registered |-> FALSE, started |-> FALSE, reconfigured |-> FALSE,
             early |-> FALSE]
NoPlugins == [n \in PluginNames |-> NoPlugin]
\* a Discovery after New: no etag, no error in its status
NoDiscovery == [plugins |-> NoPlugins, etag |-> "", err |-> OK]

InitStoreMgr(parts, m) ==
    /\ db = {}
    /\ mgr = m
    /\ dl = NoDownloader
    /\ pkg = NoPkg
    /\ agg = NoCall
    /\ disc = NoDiscovery
    /\ life = Started
    /\ meta = metadata(parts \cup {systemPartition})
    /\ partitions = parts \cup {systemPartition}
    /\ wmu = FALSE
    /\ rmu = [w |-> FALSE, r |-> 0]
    /\ xid = 0
    /\ txns = [x \in Xids |-> NoTxn]
    /\ triggers = {}
    /\ nhandles = 0
    /\ pc = [t \in Threads |-> "idle"]
    /\ cur = [t \in Threads |-> 0]
    /\ rtx = [t \in Threads |-> 0]
    /\ todo = [t \in Threads |-> {}]
    /\ ret = NoRet
    /\ fired = [x \in Xids |-> [h \in Handles |-> 0]]
    /\ ncommit = 0
    /\ hReg = [h \in Handles |-> 0]
    /\ hUnreg = [h \in Handles |-> -1]
\* the store after New, before Manager.Start
InitStore(parts) == InitStoreMgr(parts, NoMgr)

\* transaction ids that write transactions still open will need for the
\* read-only transaction of their commit
Reserved ==
    Cardinality({x \in Xids : txns[x].write /\ txns[x].st \in {"opening", "open"}})
    + Cardinality({t \in Threads : pc[t] = "c_readtxn"})

\* number of commits whose Commit has returned
CommitsDone == Cardinality({x \in Xids : txns[x].done})

\* a validity check that accepts a stale transaction
underlyingNoStale(x) ==
    IF x = 0 THEN InvalidTransactionErr
    ELSE OK

\* Store.underlying: the transaction is one of this store and not stale
underlying(x) ==
    IF x = 0 THEN InvalidTransactionErr
    ELSE IF txns[x].st = "stale" THEN InvalidTransactionErr
    ELSE OK

lockVars == <<wmu, rmu>>
regVars == <<triggers, nhandles, hReg, hUnreg>>
thrVars == <<pc, cur, rtx, todo>>

Returns(t, r) == ret' = IF t = Observed THEN r ELSE ret

(***************************************************************************)
(* NewTransaction                                                          *)
(***************************************************************************)
\* xid := atomic.AddUint64(&db.xid, 1)
NewTransaction(t, write) ==
    /\ pc[t] = "idle"
    /\ IF cur[t] = 0 THEN TRUE ELSE txns[cur[t]].st = "stale"
    /\ xid + Reserved + (IF write THEN 2 ELSE 1) <= MaxXid
    /\ xid' = xid + 1
    /\ txns' = [txns EXCEPT ![xid + 1] =
                    [NoTxn EXCEPT !.write = write, !.st = "opening",
                                  !.sdone = CommitsDone]]
    /\ cur' = [cur EXCEPT ![t] = xid + 1]
    /\ pc' = [pc EXCEPT ![t] = "nt_lock"]
    /\ UNCHANGED <<db, openVars, bundleVars, mgr, lockVars, regVars, rtx, todo, ret, fired, ncommit>>

\* NewTransaction that takes db.wmu without waiting for it
NewTransactionLockNoWmu(t) ==
    /\ pc[t] = "nt_lock"
    /\ IF txns[cur[t]].write
       THEN /\ wmu' = TRUE
            /\ rmu' = rmu
       ELSE /\ ~rmu.w
            /\ rmu' = [rmu EXCEPT !.r = @ + 1]
            /\ wmu' = wmu
    /\ txns' = [txns EXCEPT ![cur[t]] =
                    [@ EXCEPT !.st = "open", !.base = db, !.view = db, !.seq = ncommit]]
    /\ pc' = [pc EXCEPT ![t] = "idle"]
    /\ Returns(t, Ret("NewTransaction", cur[t], OK, {}, << >>, ""))
    /\ UNCHANGED <<db, openVars, bundleVars, mgr, xid, regVars, cur, rtx, todo, fired, ncommit>>

\* db.wmu.Lock() or db.rmu.RLock(); underlying := db.db.NewTransaction(write)
NewTransactionLock(t) ==
    /\ pc[t] = "nt_lock"
    /\ IF txns[cur[t]].write
       THEN /\ ~wmu
            /\ wmu' = TRUE
            /\ rmu' = rmu
       ELSE /\ ~rmu.w
            /\ rmu' = [rmu EXCEPT !.r = @ + 1]
            /\ wmu' = wmu
    /\ txns' = [txns EXCEPT ![cur[t]] =
                    [@ EXCEPT !.st = "open", !.base = db, !.view = db, !.seq = ncommit]]
    /\ pc' = [pc EXCEPT ![t] = "idle"]
    /\ Returns(t, Ret("NewTransaction", cur[t], OK, {}, << >>, ""))
    /\ UNCHANGED <<db, openVars, bundleVars, mgr, xid, regVars, cur, rtx, todo, fired, ncommit>>

(***************************************************************************)
(* Operations that forward to the transaction.  Each ...Body is the call   *)
(* with transaction x made by thread t; a thread calls it with the         *)
(* transaction it holds, a trigger callback with the read-only transaction *)
(* it was handed.                                                          *)
(***************************************************************************)
\* a Read that is served from the engine's committed content
StoreReadCommitted(x, p) ==
    IF underlying(x) # OK
    THEN [err |-> underlying(x), val |-> {}]
    ELSE txnRead(db, partitions, p)

\* Store.Read
StoreRead(x, p) ==
    IF underlying(x) # OK
    THEN [err |-> underlying(x), val |-> {}]
    ELSE txnRead(txns[x].view, partitions, p)

ReadBody(t, x, p) ==
    /\ Returns(t, Ret("Read", x, StoreRead(x, p).err, StoreRead(x, p).val, p, ""))
    /\ UNCHANGED <<txns, regVars>>

\* a Write that forwards every operation as an add
StoreWriteAddOnly(x, op, p, v) ==
    LET rt == RoundTrip(v)
        w == txnWrite(txns[x].view, partitions, AddOp, p, rt.val)
    IN  IF underlying(x) # OK THEN [err |-> underlying(x), txn |-> NoTxn]
        ELSE IF rt.err # OK THEN [err |-> rt.err, txn |-> txns[x]]
        ELSE IF ~txns[x].write THEN [err |-> InvalidTransactionErr, txn |-> txns[x]]
        ELSE IF w.err # OK THEN [err |-> w.err, txn |-> txns[x]]
        ELSE [err |-> OK,
              txn |-> [txns[x] EXCEPT !.view = w.view,
                                      !.lw = [op |-> op, p |-> p, v |-> rt.val],
                                      !.nw = IF w.view = txns[x].view THEN @ ELSE @ + 1]]

\* a Write that hands the value to the transaction before it has checked it
StoreWriteUnchecked(x, op, p, v) ==
    LET rt == RoundTrip(v)
        raw == txnWrite(txns[x].view, partitions, op, p, v)
        w == txnWrite(txns[x].view, partitions, op, p, rt.val)
    IN  IF underlying(x) # OK THEN [err |-> underlying(x), txn |-> NoTxn]
        ELSE IF rt.err # OK
        THEN [err |-> rt.err, txn |-> [txns[x] EXCEPT !.view = raw.view]]
        ELSE IF ~txns[x].write THEN [err |-> InvalidTransactionErr, txn |-> txns[x]]
        ELSE IF w.err # OK THEN [err |-> w.err, txn |-> txns[x]]
        ELSE [err |-> OK,
              txn |-> [txns[x] EXCEPT !.view = w.view,
                                      !.lw = [op |-> op, p |-> p, v |-> rt.val],
                                      !.nw = IF w.view = txns[x].view THEN @ ELSE @ + 1]]

\* Store.Write: the error and the transaction afterwards
StoreWrite(x, op, p, v) ==
    LET rt == RoundTrip(v)
        w == txnWrite(txns[x].view, partitions, op, p, rt.val)
    IN  IF underlying(x) # OK THEN [err |-> underlying(x), txn |-> NoTxn]
        ELSE IF rt.err # OK THEN [err |-> rt.err, txn |-> txns[x]]
        ELSE IF ~txns[x].write THEN [err |-> InvalidTransactionErr, txn |-> txns[x]]
        ELSE IF w.err # OK THEN [err |-> w.err, txn |-> txns[x]]
        ELSE [err |-> OK,
              txn |-> [txns[x] EXCEPT !.view = w.view,
                                      !.lw = [op |-> op, p |-> p, v |-> rt.val],
                                      !.nw = IF w.view = txns[x].view THEN @ ELSE @ + 1]]

WriteBody(t, x, op, p, v) ==
    /\ Returns(t, Ret("Write", x, StoreWrite(x, op, p, v).err, {}, p, op))
    /\ txns' = IF underlying(x) # OK THEN txns
               ELSE [txns EXCEPT ![x] = StoreWrite(x, op, p, v).txn]
    /\ UNCHANGED regVars

\* Store.ListPolicies
ListPoliciesBody(t, x) ==
    /\ Returns(t, IF underlying(x) # OK
                  THEN Ret("ListPolicies", x, underlying(x), {}, << >>, "")
                  ELSE Ret("ListPolicies", x, OK, {}, txnListPolicies(txns[x].view), ""))
    /\ UNCHANGED <<txns, regVars>>

\* Store.GetPolicy
StoreGetPolicy(x, id) ==
    IF underlying(x) # OK
    THEN [err |-> underlying(x), val |-> {}]
    ELSE txnGetPolicy(txns[x].view, id)

GetPolicyBody(t, x, id) ==
    /\ Returns(t, Ret("GetPolicy", x, StoreGetPolicy(x, id).err,
                      StoreGetPolicy(x, id).val, <<id>>, ""))
    /\ UNCHANGED <<txns, regVars>>

\* an UpsertPolicy that keeps a policy that is stored already
StoreUpsertPolicyNew(x, id, bs) ==
    IF underlying(x) # OK THEN [err |-> underlying(x), txn |-> NoTxn]
    ELSE IF ~txns[x].write THEN [err |-> InvalidTransactionErr, txn |-> txns[x]]
    ELSE [err |-> OK,
          txn |-> [txns[x] EXCEPT !.view =
                       IF txnGetPolicy(txns[x].view, id).err = OK THEN @
                       ELSE txnUpsertPolicy(txns[x].view, id, bs),
                                  !.pol = TRUE]]

\* Store.UpsertPolicy
StoreUpsertPolicy(x, id, bs) ==
    IF underlying(x) # OK THEN [err |-> underlying(x), txn |-> NoTxn]
    ELSE IF ~txns[x].write THEN [err |-> InvalidTransactionErr, txn |-> txns[x]]
    ELSE [err |-> OK,
          txn |-> [txns[x] EXCEPT !.view = txnUpsertPolicy(txns[x].view, id, bs),
                                  !.pol = TRUE]]

UpsertPolicyBody(t, x, id, bs) ==
    /\ Returns(t, Ret("UpsertPolicy", x, StoreUpsertPolicy(x, id, bs).err, Scalar(bs),
                      <<id>>, ""))
    /\ txns' = IF StoreUpsertPolicy(x, id, bs).err # OK THEN txns
               ELSE [txns EXCEPT ![x] = StoreUpsertPolicy(x, id, bs).txn]
    /\ UNCHANGED regVars

\* a DeletePolicy without the GetPolicy before the delete
StoreDeletePolicyBlind(x, id) ==
    IF underlying(x) # OK THEN [err |-> underlying(x), txn |-> NoTxn]
    ELSE IF ~txns[x].write THEN [err |-> InvalidTransactionErr, txn |-> txns[x]]
    ELSE [err |-> OK,
          txn |-> [txns[x] EXCEPT !.view = txnDeletePolicy(txns[x].view, id),
                                  !.pol = TRUE]]

\* Store.DeletePolicy: GetPolicy first, then the delete
StoreDeletePolicy(x, id) ==
    IF underlying(x) # OK THEN [err |-> underlying(x), txn |-> NoTxn]
    ELSE IF txnGetPolicy(txns[x].view, id).err # OK
    THEN [err |-> txnGetPolicy(txns[x].view, id).err, txn |-> txns[x]]
    ELSE IF ~txns[x].write THEN [err |-> InvalidTransactionErr, txn |-> txns[x]]
    ELSE [err |-> OK,
          txn |-> [txns[x] EXCEPT !.view = txnDeletePolicy(txns[x].view, id),
                                  !.pol = TRUE]]

DeletePolicyBody(t, x, id) ==
    /\ Returns(t, Ret("DeletePolicy", x, StoreDeletePolicy(x, id).err, {}, <<id>>, ""))
    /\ txns' = IF StoreDeletePolicy(x, id).err # OK THEN txns
               ELSE [txns EXCEPT ![x] = StoreDeletePolicy(x, id).txn]
    /\ UNCHANGED regVars

\* Store.MakeDir
StoreMakeDir(x) ==
    IF underlying(x) # OK THEN underlying(x)
    ELSE IF ~txns[x].write THEN InvalidTransactionErr
    ELSE OK

MakeDirBody(t, x, p) ==
    /\ Returns(t, Ret("MakeDir", x, StoreMakeDir(x), {}, p, ""))
    /\ UNCHANGED <<txns, regVars>>

\* a Register that accepts any valid transaction
StoreRegisterAnyTxn(x) ==
    IF underlying(x) # OK THEN underlying(x)
    ELSE OK

\* Store.Register: the error, or OK when a handle is inserted
StoreRegister(x) ==
    IF underlying(x) # OK THEN underlying(x)
    ELSE IF ~txns[x].write THEN InvalidTransactionErr
    ELSE OK

RegisterBody(t, x) ==
    /\ StoreRegister(x) = OK => nhandles < MaxHandles
    /\ Returns(t, Ret("Register", x, StoreRegister(x), {}, << >>, ""))
    /\ IF StoreRegister(x) = OK
       THEN /\ nhandles' = nhandles + 1
            /\ triggers' = triggers \cup {nhandles + 1}
            /\ hReg' = [hReg EXCEPT ![nhandles + 1] = ncommit]
            /\ hUnreg' = hUnreg
            /\ txns' = [txns EXCEPT ![x].reg = @ \cup {nhandles + 1}]
       ELSE UNCHANGED <<regVars, txns>>

\* an Unregister that takes a read transaction too
HandleUnregisterAnyTxn(x) ==
    IF underlying(x) # OK THEN Panic
    ELSE OK

\* handle.Unregister: panics unless x is a valid write transaction
HandleUnregister(x) ==
    IF underlying(x) # OK THEN Panic
    ELSE IF ~txns[x].write THEN Panic
    ELSE OK

\* an Unregister that leaves the handle in db.triggers
UnregisterBodyKeeps(t, x, h) ==
    /\ h \in 1..nhandles
    /\ Returns(t, Ret("Unregister", x, HandleUnregister(x), {}, << >>, ""))
    /\ IF HandleUnregister(x) = OK
       THEN /\ triggers' = triggers
            /\ hUnreg' = [hUnreg EXCEPT ![h] = IF h \in triggers THEN ncommit ELSE @]
            /\ UNCHANGED <<nhandles, hReg>>
       ELSE UNCHANGED regVars
    /\ UNCHANGED txns

UnregisterBody(t, x, h) ==
    /\ h \in 1..nhandles
    /\ Returns(t, Ret("Unregister", x, HandleUnregister(x), {}, << >>, ""))
    /\ IF HandleUnregister(x) = OK
       THEN /\ triggers' = triggers \ {h}
            /\ hUnreg' = [hUnreg EXCEPT ![h] = IF h \in triggers THEN ncommit ELSE @]
            /\ UNCHANGED <<nhandles, hReg>>
       ELSE UNCHANGED regVars
    /\ UNCHANGED txns

frame == <<db, openVars, bundleVars, mgr, lockVars, xid, thrVars, fired, ncommit>>

Read(t, p) == pc[t] = "idle" /\ ReadBody(t, cur[t], p) /\ UNCHANGED frame
Write(t, op, p, v) == pc[t] = "idle" /\ WriteBody(t, cur[t], op, p, v) /\ UNCHANGED frame
ListPolicies(t) == pc[t] = "idle" /\ ListPoliciesBody(t, cur[t]) /\ UNCHANGED frame
GetPolicy(t, id) == pc[t] = "idle" /\ GetPolicyBody(t, cur[t], id) /\ UNCHANGED frame
UpsertPolicy(t, id, bs) ==
    pc[t] = "idle" /\ UpsertPolicyBody(t, cur[t], id, bs) /\ UNCHANGED frame
DeletePolicy(t, id) == pc[t] = "idle" /\ DeletePolicyBody(t, cur[t], id) /\ UNCHANGED frame
MakeDir(t, p) == pc[t] = "idle" /\ MakeDirBody(t, cur[t], p) /\ UNCHANGED frame
Register(t) == pc[t] = "idle" /\ RegisterBody(t, cur[t]) /\ UNCHANGED frame
Unregister(t, h) == pc[t] = "idle" /\ UnregisterBody(t, cur[t], h) /\ UNCHANGED frame

(***************************************************************************)
(* Commit and Abort                                                        *)
(***************************************************************************)
\* transaction.Commit / transaction.Abort: the transaction is stale afterwards
Stale(txn) ==
    [txn EXCEPT !.st = "stale", !.view = {}, !.base = {}, !.lw = NoWrite, !.pol = FALSE]

\* the engine's atomic commit: the transaction's sets and deletes
EngineCommit(kv, txn) == (kv \ (txn.base \ txn.view)) \cup (txn.view \ txn.base)

\* a trigger transaction that sees the content from before the commit of x
TriggerTxnViewBefore(x) == txns[x].base

\* what the read-only transaction opened for the triggers of x sees
TriggerTxnView(x) == db

\* a Commit that takes db.rmu while read transactions are open
CommitNoWait(t) ==
    /\ pc[t] = "idle"
    /\ IF underlying(cur[t]) # OK
       THEN /\ Returns(t, Ret("Commit", cur[t], underlying(cur[t]), {}, << >>, ""))
            /\ UNCHANGED <<txns, rmu, pc>>
       ELSE IF txns[cur[t]].write
       THEN /\ ~rmu.w
            /\ rmu' = [rmu EXCEPT !.w = TRUE]
            /\ pc' = [pc EXCEPT ![t] = "c_engine"]
            /\ UNCHANGED <<txns, ret>>
       ELSE \* committing read txn: underlying.Abort, db.rmu.RUnlock()
            /\ txns' = [txns EXCEPT ![cur[t]] = Stale(@)]
            /\ rmu' = [rmu EXCEPT !.r = @ - 1]
            /\ Returns(t, Ret("Commit", cur[t], OK, {}, << >>, ""))
            /\ pc' = pc
    /\ UNCHANGED <<db, openVars, bundleVars, mgr, wmu, xid, regVars, cur, rtx, todo, fired, ncommit>>

\* Commit up to db.rmu.Lock(), which blocks until all readers are done; the
\* commit of a read transaction in full
Commit(t) ==
    /\ pc[t] = "idle"
    /\ IF underlying(cur[t]) # OK
       THEN /\ Returns(t, Ret("Commit", cur[t], underlying(cur[t]), {}, << >>, ""))
            /\ UNCHANGED <<txns, rmu, pc>>
       ELSE IF txns[cur[t]].write
       THEN /\ ~rmu.w /\ rmu.r = 0
            /\ rmu' = [rmu EXCEPT !.w = TRUE]
            /\ pc' = [pc EXCEPT ![t] = "c_engine"]
            /\ UNCHANGED <<txns, ret>>
       ELSE \* committing read txn: underlying.Abort, db.rmu.RUnlock()
            /\ txns' = [txns EXCEPT ![cur[t]] = Stale(@)]
            /\ rmu' = [rmu EXCEPT !.r = @ - 1]
            /\ Returns(t, Ret("Commit", cur[t], OK, {}, << >>, ""))
            /\ pc' = pc
    /\ UNCHANGED <<db, openVars, bundleVars, mgr, wmu, xid, regVars, cur, rtx, todo, fired, ncommit>>

\* a Commit that goes on to the triggers when the engine commit failed
CommitEngineIgnoresError(t, ok) ==
    /\ pc[t] = "c_engine"
    /\ IF ok
       THEN /\ db' = EngineCommit(db, txns[cur[t]])
            /\ ncommit' = ncommit + 1
            /\ txns' = [txns EXCEPT ![cur[t]] =
                            [Stale(@) EXCEPT !.cseq = ncommit + 1,
                                             !.result = EngineCommit(db, txns[cur[t]]),
                                             !.trg = triggers,
                                             !.lw = txns[cur[t]].lw,
                                             !.base = txns[cur[t]].base,
                                             !.pol = txns[cur[t]].pol]]
            /\ pc' = [pc EXCEPT ![t] = "c_readtxn"]
            /\ ret' = ret
       ELSE /\ txns' = [txns EXCEPT ![cur[t]] = Stale(@)]
            /\ pc' = [pc EXCEPT ![t] = "c_readtxn"]
            /\ UNCHANGED <<db, ncommit, ret>>
    /\ UNCHANGED <<openVars, bundleVars, mgr, lockVars, xid, regVars, cur, rtx, todo, fired>>

\* a Commit whose engine commit reports success and installs nothing
CommitEngineLost(t, ok) ==
    /\ pc[t] = "c_engine"
    /\ IF ok
       THEN /\ db' = db
            /\ ncommit' = ncommit + 1
            /\ txns' = [txns EXCEPT ![cur[t]] =
                            [Stale(@) EXCEPT !.cseq = ncommit + 1,
                                             !.result = EngineCommit(db, txns[cur[t]]),
                                             !.trg = triggers,
                                             !.lw = txns[cur[t]].lw,
                                             !.base = txns[cur[t]].base,
                                             !.pol = txns[cur[t]].pol]]
            /\ pc' = [pc EXCEPT ![t] = "c_readtxn"]
            /\ ret' = ret
       ELSE /\ txns' = [txns EXCEPT ![cur[t]] = Stale(@)]
            /\ Returns(t, Ret("Commit", cur[t], EngineErr, {}, << >>, ""))
            /\ pc' = [pc EXCEPT ![t] = "idle"]
            /\ UNCHANGED <<db, ncommit>>
    /\ UNCHANGED <<openVars, bundleVars, mgr, lockVars, xid, regVars, cur, rtx, todo, fired>>

\* event, err := underlying.Commit(ctx); if err != nil { return err }
CommitEngine(t, ok) ==
    /\ pc[t] = "c_engine"
    /\ IF ok
       THEN /\ db' = EngineCommit(db, txns[cur[t]])
            /\ ncommit' = ncommit + 1
            /\ txns' = [txns EXCEPT ![cur[t]] =
                            [Stale(@) EXCEPT !.cseq = ncommit + 1,
                                             !.result = EngineCommit(db, txns[cur[t]]),
                                             !.trg = triggers,
                                             !.lw = txns[cur[t]].lw,
                                             !.base = txns[cur[t]].base,
                                             !.pol = txns[cur[t]].pol]]
            /\ pc' = [pc EXCEPT ![t] = "c_readtxn"]
            /\ ret' = ret
       ELSE /\ txns' = [txns EXCEPT ![cur[t]] = Stale(@)]
            /\ Returns(t, Ret("Commit", cur[t], EngineErr, {}, << >>, ""))
            /\ pc' = [pc EXCEPT ![t] = "idle"]
            /\ UNCHANGED <<db, ncommit>>
    /\ UNCHANGED <<openVars, bundleVars, mgr, lockVars, xid, regVars, cur, rtx, todo, fired>>

\* readOnly := db.db.NewTransaction(false); xid; readTxn := newTransaction(...)
CommitReadTxn(t) ==
    /\ pc[t] = "c_readtxn"
    /\ xid' = xid + 1
    /\ txns' = [txns EXCEPT ![xid + 1] =
                    [NoTxn EXCEPT !.st = "open", !.base = TriggerTxnView(cur[t]),
                                  !.view = TriggerTxnView(cur[t]), !.seq = ncommit,
                                  !.sdone = CommitsDone],
                                ![cur[t]] = [@ EXCEPT !.base = {}]]
    /\ rtx' = [rtx EXCEPT ![t] = xid + 1]
    /\ todo' = [todo EXCEPT ![t] = triggers]
    /\ pc' = [pc EXCEPT ![t] = "c_dispatch"]
    /\ UNCHANGED <<db, openVars, bundleVars, mgr, lockVars, regVars, cur, ret, fired, ncommit>>

\* one round of: for h := range db.triggers { h.cb(ctx, readTxn, event) }
Visit(t, h) ==
    /\ pc[t] = "c_dispatch"
    /\ h \in todo[t]
    /\ todo' = [todo EXCEPT ![t] = @ \ {h}]
    /\ fired' = [fired EXCEPT ![cur[t]][h] = @ + 1]
    /\ UNCHANGED <<db, openVars, bundleVars, lockVars, xid, pc, cur, rtx, ncommit>>

\* the callback does nothing with the store
DispatchQuiet(t, h) == Visit(t, h) /\ UNCHANGED <<txns, regVars, ret, mgr>>
\* the callback reads through the transaction it was handed
DispatchRead(t, h, p) == Visit(t, h) /\ ReadBody(t, rtx[t], p) /\ UNCHANGED mgr
\* the callback tries to register a trigger with it
DispatchRegister(t, h) == Visit(t, h) /\ RegisterBody(t, rtx[t]) /\ UNCHANGED mgr

\* db.rmu.Unlock()
CommitUnlock(t) ==
    /\ pc[t] = "c_dispatch"
    /\ todo[t] = {}
    /\ rmu' = [rmu EXCEPT !.w = FALSE]
    /\ pc' = [pc EXCEPT ![t] = "c_unlock_w"]
    /\ UNCHANGED <<db, openVars, bundleVars, mgr, wmu, xid, txns, regVars, cur, rtx, todo, ret,
                   fired, ncommit>>

\* db.wmu.Unlock(); return nil
CommitReturn(t) ==
    /\ pc[t] = "c_unlock_w"
    /\ wmu' = FALSE
    /\ txns' = [txns EXCEPT ![cur[t]] = [@ EXCEPT !.done = TRUE, !.pol = FALSE]]
    /\ pc' = [pc EXCEPT ![t] = "idle"]
    /\ Returns(t, Ret("Commit", cur[t], OK, {}, << >>, ""))
    /\ UNCHANGED <<db, openVars, bundleVars, mgr, rmu, xid, regVars, cur, rtx, todo, fired, ncommit>>

\* an Abort that installs the staged writes
AbortCommits(t) ==
    /\ pc[t] = "idle"
    /\ IF underlying(cur[t]) # OK
       THEN /\ Returns(t, Ret("Abort", cur[t], Panic, {}, << >>, ""))
            /\ UNCHANGED <<db, txns, lockVars>>
       ELSE /\ db' = EngineCommit(db, txns[cur[t]])
            /\ txns' = [txns EXCEPT ![cur[t]] = Stale(@)]
            /\ IF txns[cur[t]].write
               THEN wmu' = FALSE /\ rmu' = rmu
               ELSE rmu' = [rmu EXCEPT !.r = @ - 1] /\ wmu' = wmu
            /\ Returns(t, Ret("Abort", cur[t], OK, {}, << >>, ""))
    /\ UNCHANGED <<openVars, bundleVars, mgr, xid, regVars, thrVars, fired, ncommit>>

\* an Abort that takes back the registrations of the transaction
AbortUnregisters(t) ==
    /\ pc[t] = "idle"
    /\ IF underlying(cur[t]) # OK
       THEN /\ Returns(t, Ret("Abort", cur[t], Panic, {}, << >>, ""))
            /\ UNCHANGED <<txns, lockVars>>
       ELSE /\ txns' = [txns EXCEPT ![cur[t]] = Stale(@)]
            /\ IF txns[cur[t]].write
               THEN wmu' = FALSE /\ rmu' = rmu
               ELSE rmu' = [rmu EXCEPT !.r = @ - 1] /\ wmu' = wmu
            /\ Returns(t, Ret("Abort", cur[t], OK, {}, << >>, ""))
    /\ triggers' = IF underlying(cur[t]) # OK THEN triggers
                   ELSE triggers \ txns[cur[t]].reg
    /\ UNCHANGED <<db, openVars, bundleVars, mgr, xid, nhandles, hReg, hUnreg, thrVars,
                   fired, ncommit>>

\* Store.Abort
Abort(t) ==
    /\ pc[t] = "idle"
    /\ IF underlying(cur[t]) # OK
       THEN /\ Returns(t, Ret("Abort", cur[t], Panic, {}, << >>, ""))
            /\ UNCHANGED <<txns, lockVars>>
       ELSE /\ txns' = [txns EXCEPT ![cur[t]] = Stale(@)]
            /\ IF txns[cur[t]].write
               THEN wmu' = FALSE /\ rmu' = rmu
               ELSE rmu' = [rmu EXCEPT !.r = @ - 1] /\ wmu' = wmu
            /\ Returns(t, Ret("Abort", cur[t], OK, {}, << >>, ""))
    /\ UNCHANGED <<db, openVars, bundleVars, mgr, xid, regVars, thrVars, fired, ncommit>>

(***************************************************************************)
(* Opening and closing the store.                                          *)
(***************************************************************************)
\* other is a prefix of p, a wildcard on either side matching any segment
hasPrefixWithWildcard(p, other) ==
    /\ Len(other) <= Len(p)
    /\ \A i \in 1..Len(other) :
            p[i] = other[i] \/ p[i] = pathWildcard \/ other[i] = pathWildcard
\* pathSet.IsDisjoint
IsDisjoint(ps) ==
    \A p \in ps, other \in ps : p # other => ~hasPrefixWithWildcard(p, other)
\* pathSet.Diff
Diff(ps, other) == ps \ other

\* New checks the declared partitions only, not against the system partition
checkPartitionsDeclared(parts) ==
    IF ~IsDisjoint(parts) THEN InternalErr ELSE OK

\* the checks of New on the partitions it is given
checkPartitions(parts) ==
    IF ~IsDisjoint(parts)
    THEN InternalErr
    ELSE IF ~IsDisjoint(parts \cup {systemPartition})
    THEN InternalErr
    ELSE OK

\* txn.Get(key) finds an item
KeyFound(kv, k) == \E u \in kv : u[1] = k

\* validatePartitions that lets partitions go
validatePartitionsAdded(kv, existing, parts) ==
    LET addedPartitions == Diff(parts, existing.partitions)
    IN  IF \E path \in addedPartitions : \E i \in 1..Len(path) :
                KeyFound(kv, DataPath2Key(SubSeq(path, 1, i)))
        THEN InternalErr
        ELSE OK

\* Store.validatePartitions: the keys it probes are those of the pattern's
\* own segments
validatePartitions(kv, existing, parts) ==
    LET removedPartitions == Diff(existing.partitions, parts)
        addedPartitions == Diff(parts, existing.partitions)
    IN  IF removedPartitions # {}
        THEN InternalErr
        ELSE IF \E path \in addedPartitions : \E i \in 1..Len(path) :
                    KeyFound(kv, DataPath2Key(SubSeq(path, 1, i)))
        THEN InternalErr
        ELSE OK

\* init that leaves the system partition out of the metadata
initDeclared(kv, m, parts) ==
    IF m.found /\ m.schema_version # supportedSchemaVersion
    THEN [err |-> InternalErr, meta |-> m]
    ELSE IF ~m.found
    THEN [err |-> OK, meta |-> metadata(parts \ {systemPartition})]
    ELSE IF validatePartitions(kv, m, parts) # OK
    THEN [err |-> InternalErr, meta |-> m]
    ELSE [err |-> OK, meta |-> metadata(parts \ {systemPartition})]

\* Store.init inside db.Update: the error it returns and the metadata the
\* engine holds afterwards
init(kv, m, parts) ==
    IF m.found /\ m.schema_version # supportedSchemaVersion
    THEN [err |-> InternalErr, meta |-> m]
    ELSE IF ~m.found
    THEN [err |-> OK, meta |-> metadata(parts)]
    ELSE IF validatePartitions(kv, m, parts) # OK
    THEN [err |-> InternalErr, meta |-> m]
    ELSE [err |-> OK, meta |-> metadata(parts)]

\* the partitions given to New, as recorded in ret.val
Given(parts) == {<<q, "partition">> : q \in parts}

storeVars == <<wmu, rmu, xid, txns, triggers, nhandles, cur, rtx, todo, fired,
               ncommit, hReg, hUnreg>>

\* New whose init keeps the metadata it wrote before it failed
NewNoRollback(parts) ==
    /\ life.engine = "closed"
    /\ \A t \in Threads : pc[t] = "idle"
    /\ LET ps == parts \cup {systemPartition}
           r == init(db, meta, ps)
           left == life.leaked \/ life.gc \in {"select", "run"}
       IN  IF checkPartitions(parts) # OK
           THEN /\ ret' = Ret("New", 0, InternalErr, Given(parts), << >>, "")
                /\ UNCHANGED <<openVars, bundleVars, mgr, storeVars>>
           ELSE IF r.err # OK
           THEN \* go store.GC, then store.Close
                /\ life' = [engine |-> "closed", ticker |-> "stopped",
                            close |-> "open", gc |-> "select", leaked |-> left,
                            tick |-> FALSE]
                /\ ret' = Ret("New", 0, r.err, Given(parts), << >>, "")
                /\ meta' = metadata(ps)
                /\ UNCHANGED <<partitions, storeVars>>
           ELSE /\ life' = [Started EXCEPT !.leaked = left]
                /\ meta' = r.meta
                /\ partitions' = ps
                /\ wmu' = FALSE
                /\ rmu' = [w |-> FALSE, r |-> 0]
                /\ xid' = 0
                /\ txns' = [x \in Xids |-> NoTxn]
                /\ triggers' = {}
                /\ nhandles' = 0
                /\ cur' = [t \in Threads |-> 0]
                /\ rtx' = [t \in Threads |-> 0]
                /\ todo' = [t \in Threads |-> {}]
                /\ fired' = [x \in Xids |-> [h \in Handles |-> 0]]
                /\ ncommit' = 0
                /\ hReg' = [h \in Handles |-> 0]
                /\ hUnreg' = [h \in Handles |-> -1]
                /\ ret' = Ret("New", 0, OK, Given(parts), << >>, "")
    /\ UNCHANGED <<db, pc, mgr, bundleVars>>

\* New, called while no thread is inside a call on the store of before.  The
\* transactions of that store are those of another store from then on.
New(parts) ==
    /\ life.engine = "closed"
    /\ \A t \in Threads : pc[t] = "idle"
    /\ LET ps == parts \cup {systemPartition}
           r == init(db, meta, ps)
           left == life.leaked \/ life.gc \in {"select", "run"}
       IN  IF checkPartitions(parts) # OK
           THEN /\ ret' = Ret("New", 0, InternalErr, Given(parts), << >>, "")
                /\ UNCHANGED <<openVars, bundleVars, mgr, storeVars>>
           ELSE IF r.err # OK
           THEN \* go store.GC, then store.Close
                /\ life' = [engine |-> "closed", ticker |-> "stopped",
                            close |-> "open", gc |-> "select", leaked |-> left,
                            tick |-> FALSE]
                /\ ret' = Ret("New", 0, r.err, Given(parts), << >>, "")
                /\ UNCHANGED <<partitions, meta, storeVars>>
           ELSE /\ life' = [Started EXCEPT !.leaked = left]
                /\ meta' = r.meta
                /\ partitions' = ps
                /\ wmu' = FALSE
                /\ rmu' = [w |-> FALSE, r |-> 0]
                /\ xid' = 0
                /\ txns' = [x \in Xids |-> NoTxn]
                /\ triggers' = {}
                /\ nhandles' = 0
                /\ cur' = [t \in Threads |-> 0]
                /\ rtx' = [t \in Threads |-> 0]
                /\ todo' = [t \in Threads |-> {}]
                /\ fired' = [x \in Xids |-> [h \in Handles |-> 0]]
                /\ ncommit' = 0
                /\ hReg' = [h \in Handles |-> 0]
                /\ hUnreg' = [h \in Handles |-> -1]
                /\ ret' = Ret("New", 0, OK, Given(parts), << >>, "")
    /\ UNCHANGED <<db, pc, mgr, bundleVars>>

\* Store.Close
Close ==
    /\ life.ticker # "none"
    /\ \A t \in Threads : pc[t] = "idle"
    /\ life' = [life EXCEPT !.ticker = "stopped", !.engine = "closed"]
    /\ ret' = Ret("Close", 0, OK, {}, << >>, "")
    /\ UNCHANGED <<db, partitions, meta, storeVars, pc, mgr, bundleVars>>

\* the running ticker puts a tick into its channel, which holds one
GCTick ==
    /\ life.ticker = "running"
    /\ ~life.tick
    /\ life' = [life EXCEPT !.tick = TRUE]
    /\ UNCHANGED <<db, partitions, meta, storeVars, pc, ret, mgr, bundleVars>>

\* Store.GC at its select: it returns on the close signal and goes on to
\* the value log GC when it receives a tick
GCSelect ==
    /\ life.gc = "select"
    /\ \E c \in {"close", "tick"} :
            IF c = "close"
            THEN life.close = "closed" /\ life' = [life EXCEPT !.gc = "exited"]
            ELSE life.tick /\ life' = [life EXCEPT !.gc = "run", !.tick = FALSE]
    /\ UNCHANGED <<db, partitions, meta, storeVars, pc, ret, mgr, bundleVars>>

\* Store.GC: RunValueLogGC is called until it returns an error, then back
\* to the select
GCRun ==
    /\ life.gc = "run"
    /\ life' = [life EXCEPT !.gc = "select"]
    /\ UNCHANGED <<db, partitions, meta, storeVars, pc, ret, mgr, bundleVars>>

(***************************************************************************)
(* The plugin manager: Manager.Start and the trigger it registers.         *)
(***************************************************************************)
\* the thread that calls Manager.Start
Starter == "t2"
\* bytes that ast.ParseModule refuses
Unparsable == {"!"}
ParseErr == "PARSE"
PluginErr == "PLUGIN"

\* loadCompilerFromStore with transaction x: ListPolicies, then GetPolicy and
\* ParseModule for each id; the compiler is the modules it compiled
loadCompilerFromStore(x) ==
    IF underlying(x) # OK
    THEN [err |-> underlying(x), compiler |-> NoCompiler]
    ELSE LET items == Iterate(txns[x].view, <<"policies">>)
         IN  IF \E u \in items : u[3] \in Unparsable
             THEN [err |-> ParseErr, compiler |-> NoCompiler]
             ELSE [err |-> OK, compiler |-> {<<(<<u[1][2]>>), u[3]>> : u \in items}]

\* Manager.Start, one statement at a time; ok: the plugin starts.  The
\* transactions are opened as Store.NewTransaction opens them, the lock
\* being taken in NewTransactionLock.
ManagerStart(ok) ==
    /\ pc[Starter] = "idle"
    /\ CASE mgr.pc \in {"new", "txn"} ->
                \* m.Store.NewTransaction(ctx, storage.WriteParams), and the
                \* same at the head of storage.Txn
                /\ xid + Reserved + 2 <= MaxXid
                /\ xid' = xid + 1
                /\ txns' = [txns EXCEPT ![xid + 1] =
                                [NoTxn EXCEPT !.write = TRUE, !.st = "opening",
                                              !.sdone = CommitsDone]]
                /\ cur' = [cur EXCEPT ![Starter] = xid + 1]
                /\ pc' = [pc EXCEPT ![Starter] = "nt_lock"]
                /\ mgr' = IF mgr.pc = "new"
                          THEN [mgr EXCEPT !.pc = "load", !.txn = xid + 1]
                          ELSE [mgr EXCEPT !.pc = "register"]
                /\ UNCHANGED <<db, openVars, bundleVars, lockVars, regVars, rtx, todo, ret,
                               fired, ncommit>>
         [] mgr.pc = "load" ->
                \* loadCompilerFromStore, return err or m.setCompiler
                /\ mgr' = IF loadCompilerFromStore(cur[Starter]).err # OK
                          THEN [mgr EXCEPT !.pc = "returned",
                                    !.err = loadCompilerFromStore(cur[Starter]).err]
                          ELSE [mgr EXCEPT !.pc = "plugins",
                                    !.compiler = loadCompilerFromStore(cur[Starter]).compiler]
                /\ UNCHANGED <<db, openVars, bundleVars, lockVars, xid, txns, regVars, thrVars,
                               ret, fired, ncommit>>
         [] mgr.pc = "plugins" ->
                \* p.Start(ctx) for the plugins
                /\ mgr' = IF ok THEN [mgr EXCEPT !.pc = "txn"]
                          ELSE [mgr EXCEPT !.pc = "returned", !.err = PluginErr]
                /\ UNCHANGED <<db, openVars, bundleVars, lockVars, xid, txns, regVars, thrVars,
                               ret, fired, ncommit>>
         [] mgr.pc = "register" ->
                \* inside storage.Txn: m.Store.Register, return nil
                /\ RegisterBody(Starter, cur[Starter])
                /\ mgr' = [mgr EXCEPT !.pc = "commit",
                                !.handle = IF StoreRegister(cur[Starter]) = OK
                                           THEN nhandles + 1 ELSE 0]
                /\ UNCHANGED <<db, openVars, bundleVars, lockVars, xid, thrVars, fired, ncommit>>
         [] mgr.pc = "commit" ->
                \* storage.Txn has committed; return nil
                /\ txns[cur[Starter]].st = "stale"
                /\ mgr' = [mgr EXCEPT !.pc = "returned"]
                /\ UNCHANGED <<db, openVars, bundleVars, lockVars, xid, txns, regVars, thrVars,
                               ret, fired, ncommit>>
         [] OTHER -> FALSE

\* the commit at the end of storage.Txn
ManagerCommits(t) ==
    t = Starter => mgr.pc = "commit" /\ txns[cur[t]].st = "open"

\* a trigger callback: that of Manager.Start when h is its handle, which
\* swaps the compiler when the event reports a policy change; one that does
\* nothing otherwise
DispatchManager(t, h) ==
    /\ Visit(t, h)
    /\ mgr' = IF h = mgr.handle /\ txns[cur[t]].pol
              THEN [mgr EXCEPT !.compiler = loadCompilerFromStore(rtx[t]).compiler]
              ELSE mgr
    /\ UNCHANGED <<txns, regVars, ret>>

\* Manager.GetCompiler, called by the observed thread
GetCompiler ==
    /\ ret' = Ret("GetCompiler", 0, OK, mgr.compiler, << >>, "")
    /\ UNCHANGED <<db, openVars, bundleVars, mgr, lockVars, xid, txns, regVars, thrVars, fired,
                   ncommit>>

(***************************************************************************)
(* The bundle downloader (package download).                               *)
(***************************************************************************)
MaxRetry == 2
\* the store and the manager, which the downloader and the bundle files
\* leave alone
hostVars == <<db, openVars, mgr, lockVars, xid, txns, regVars, thrVars, ret, fired,
              ncommit>>
\* the values of the ETag header a server sends ("": no header)
ETags == {"", "v1", "v2"}
RequestErr == "request failed"
BundleErr == "bundle read failed"
HTTPNotFoundErr == "server replied with not found"
UnauthorizedErr == "server replied with not authorized"
HTTPErr == "server replied with HTTP"
CallbackErr == "callback failed"
\* what the client's Do gives: fail (Do returned an error), status, body
\* (nil: no body, good: a bundle, bad: not a bundle), etag (the ETag header)
Responses ==
    [fail : {TRUE}, status : {"OK"}, body : {"nil"}, etag : {""}]
    \cup [fail : {FALSE}, status : {"OK"}, body : {"nil", "good", "bad"},
          etag : ETags]
    \cup [fail : {FALSE}, status : {"NotModified"}, body : {"nil"}, etag : ETags]
    \cup [fail : {FALSE}, status : {"NotFound", "Unauthorized", "Other"},
          body : {"nil"}, etag : {""}]

\* Downloader.download on the response resp: bundle, etag, err
download(resp) ==
    IF resp.fail
    THEN [bundle |-> FALSE, etag |-> "", err |-> RequestErr]
    ELSE CASE resp.status = "OK" ->
                IF resp.body # "nil"
                THEN IF resp.body = "bad"
                     THEN [bundle |-> FALSE, etag |-> "", err |-> BundleErr]
                     ELSE [bundle |-> TRUE, etag |-> resp.etag, err |-> OK]
                ELSE [bundle |-> FALSE, etag |-> "", err |-> OK]
           [] resp.status = "NotModified" ->
                [bundle |-> FALSE, etag |-> resp.etag, err |-> OK]
           [] resp.status = "NotFound" ->
                [bundle |-> FALSE, etag |-> "", err |-> HTTPNotFoundErr]
           [] resp.status = "Unauthorized" ->
                [bundle |-> FALSE, etag |-> "", err |-> UnauthorizedErr]
           [] OTHER -> [bundle |-> FALSE, etag |-> "", err |-> HTTPErr]

\* oneShot, were it to store the etag whatever the callback returned
oneShotEtagAlways(etag, res, callbackErr) ==
    IF res.err = OK THEN res.etag ELSE etag

\* the etag oneShot leaves in Downloader.etag
oneShotEtag(etag, res, callbackErr) ==
    IF res.err = OK /\ callbackErr = OK THEN res.etag ELSE etag

\* the delay loop computes from what oneShot returned
loopDelay(err, retry) ==
    IF err = OK THEN [kind |-> "poll", retry |-> 0]
    ELSE [kind |-> "backoff", retry |-> retry]

\* Downloader.WithCallback
WithCallback ==
    /\ dl.pc = "new"
    /\ dl' = [dl EXCEPT !.f = TRUE]
    /\ UNCHANGED <<hostVars, pkg, agg, disc>>

\* Downloader.Start: go d.loop(), which makes its context
DownloaderStart ==
    /\ dl.pc = "new"
    /\ dl' = [dl EXCEPT !.pc = "oneShot", !.retry = 0, !.cancelled = FALSE]
    /\ UNCHANGED <<hostVars, pkg, agg, disc>>

\* oneShot, first half: d.download sends the request with If-None-Match
\* set to d.etag and gets resp
Download(resp) ==
    /\ dl.pc = "oneShot"
    /\ dl' = [dl EXCEPT !.pc = "callback", !.res = download(resp),
                        !.inm = dl.etag, !.attempted = TRUE,
                        !.fails = IF download(resp).err # OK THEN @ + 1 ELSE 0]
    /\ UNCHANGED <<hostVars, pkg, agg, disc>>

\* oneShot, second half: the callback, if there is one, returns cb; d.etag
\* is set; back in loop the delay is computed and the timer started
OneShot(cb) ==
    /\ dl.pc = "callback"
    /\ LET callbackErr == IF dl.f THEN cb ELSE OK
       IN  dl' = [dl EXCEPT !.pc = "select", !.cberr = callbackErr,
                            !.etag = oneShotEtag(dl.etag, dl.res, callbackErr),
                            !.delay = loopDelay(dl.res.err, dl.retry)]
    /\ UNCHANGED <<hostVars, pkg, agg, disc>>

\* loop, were the timer case to leave retry alone after a success
TimerFiresKeeps ==
    /\ dl.pc = "select"
    /\ dl.res.err # OK => dl.retry < MaxRetry
    /\ dl' = [dl EXCEPT !.pc = "oneShot",
                        !.retry = IF dl.res.err # OK THEN dl.retry + 1 ELSE dl.retry]
    /\ UNCHANGED <<hostVars, pkg, agg, disc>>

\* loop, case <-timer.C
TimerFires ==
    /\ dl.pc = "select"
    /\ dl.res.err # OK => dl.retry < MaxRetry
    /\ dl' = [dl EXCEPT !.pc = "oneShot",
                        !.retry = IF dl.res.err # OK THEN dl.retry + 1 ELSE 0]
    /\ UNCHANGED <<hostVars, pkg, agg, disc>>

\* Downloader.Stop is called: it makes done and blocks in d.stop <- done
Stop(s) ==
    /\ dl.stop[s] = "idle"
    /\ dl' = [dl EXCEPT !.stop[s] = "send"]
    /\ UNCHANGED <<hostVars, pkg, agg, disc>>

\* loop, were it to acknowledge the stop and go on polling
LoopStopGoesOn(s) ==
    /\ dl.pc = "select"
    /\ dl.stop[s] = "send"
    /\ dl' = [dl EXCEPT !.stop[s] = "returned", !.done = s]
    /\ UNCHANGED <<hostVars, pkg, agg, disc>>

\* loop, case done := <-d.stop, from the call s that is sending; cancel()
LoopStop(s) ==
    /\ dl.pc = "select"
    /\ dl.stop[s] = "send"
    /\ dl' = [dl EXCEPT !.pc = "ack", !.stop[s] = "wait", !.done = s,
                        !.cancelled = TRUE]
    /\ UNCHANGED <<hostVars, pkg, agg, disc>>

\* loop: done <- struct{}{} and return; Stop receives it and returns
LoopAck ==
    /\ dl.pc = "ack"
    /\ dl' = [dl EXCEPT !.pc = "exited", !.stop[dl.done] = "returned"]
    /\ UNCHANGED <<hostVars, pkg, agg, disc>>

(***************************************************************************)
(* Bundle persistence (internal/bundle): SaveBundleToDisk and              *)
(* LoadBundleFromDisk.  Strings and files are sequences of characters, raw *)
(* bundles sequences of bytes.                                             *)
(***************************************************************************)
MaxEtagLen == 2
Quote == "\""
Backslash == "\\"
SeqsUpTo(S, n) == UNION {[1..k -> S] : k \in 0..n}
\* characters of the etags that are saved
EtagChars == {"a", Quote, Backslash, "}"}
SaveEtags == SeqsUpTo(EtagChars, MaxEtagLen)
\* raw bundles of 1, 2 and 4 bytes
RawBundles == {<<77>>, <<77, 0>>, <<255, 0, 77, 1>>}
DecodeErr == "failed to decode bundle package file"
BundleReadErr == "failed to read bundle data"
NoBundleErr == "no raw bundle bytes to persist to disk"

\* base64.StdEncoding: the alphabet, the encoder and the decoder
B64 == <<"A", "B", "C", "D", "E", "F", "G", "H", "I", "J", "K", "L", "M",
         "N", "O", "P", "Q", "R", "S", "T", "U", "V", "W", "X", "Y", "Z",
         "a", "b", "c", "d", "e", "f", "g", "h", "i", "j", "k", "l", "m",
         "n", "o", "p", "q", "r", "s", "t", "u", "v", "w", "x", "y", "z",
         "0", "1", "2", "3", "4", "5", "6", "7", "8", "9", "+", "/">>
B64Chars == {B64[i] : i \in 1..Len(B64)}
B64Index(c) == (CHOOSE i \in 1..Len(B64) : B64[i] = c) - 1
RECURSIVE base64Encode(_)
base64Encode(b) ==
    IF Len(b) = 0 THEN << >>
    ELSE IF Len(b) = 1
    THEN <<B64[(b[1] \div 4) + 1], B64[(b[1] % 4) * 16 + 1], "=", "=">>
    ELSE IF Len(b) = 2
    THEN <<B64[(b[1] \div 4) + 1], B64[(b[1] % 4) * 16 + (b[2] \div 16) + 1],
           B64[(b[2] % 16) * 4 + 1], "=">>
    ELSE <<B64[(b[1] \div 4) + 1], B64[(b[1] % 4) * 16 + (b[2] \div 16) + 1],
           B64[(b[2] % 16) * 4 + (b[3] \div 64) + 1], B64[(b[3] % 64) + 1]>>
         \o base64Encode(SubSeq(b, 4, Len(b)))
RECURSIVE base64Decode(_)
base64Decode(cs) ==
    IF Len(cs) = 0 THEN [ok |-> TRUE, bytes |-> << >>]
    ELSE IF Len(cs) < 4 \/ cs[1] \notin B64Chars \/ cs[2] \notin B64Chars
    THEN [ok |-> FALSE, bytes |-> << >>]
    ELSE LET i1 == B64Index(cs[1])
             i2 == B64Index(cs[2])
             rest == SubSeq(cs, 5, Len(cs))
             b1 == i1 * 4 + (i2 \div 16)
         IN  IF cs[3] = "="
             THEN [ok |-> cs[4] = "=" /\ rest = << >>, bytes |-> <<b1>>]
             ELSE IF cs[3] \notin B64Chars THEN [ok |-> FALSE, bytes |-> << >>]
             ELSE LET i3 == B64Index(cs[3])
                      b2 == (i2 % 16) * 16 + (i3 \div 4)
                  IN  IF cs[4] = "="
                      THEN [ok |-> rest = << >>, bytes |-> <<b1, b2>>]
                      ELSE IF cs[4] \notin B64Chars
                      THEN [ok |-> FALSE, bytes |-> << >>]
                      ELSE LET b3 == (i3 % 4) * 64 + B64Index(cs[4])
                               r == base64Decode(rest)
                           IN  [ok |-> r.ok, bytes |-> <<b1, b2, b3>> \o r.bytes]

\* the file SaveBundleToDisk writes: the etag is put between the quotes by
\* Sprintf with %s, as it is
packageFile(etag, raw) ==
    <<"{", Quote, "e", "t", "a", "g", Quote, ":", Quote>> \o etag
    \o <<Quote, ",", Quote, "b", "u", "n", "d", "l", "e", Quote, ":", Quote>>
    \o base64Encode(raw) \o <<Quote, "}">>

\* encoding/json reading a string of s from i, after the opening quote: a
\* backslash starts an escape, a quote ends the string.  Of the escapes
\* only those of a quote, a backslash and a slash are told apart: no file
\* of the model has another escape letter after a backslash.
RECURSIVE scanString(_, _, _)
scanString(s, i, acc) ==
    IF i > Len(s) THEN [ok |-> FALSE, val |-> acc, next |-> i]
    ELSE IF s[i] = Quote THEN [ok |-> TRUE, val |-> acc, next |-> i + 1]
    ELSE IF s[i] = Backslash
    THEN IF i + 1 > Len(s) THEN [ok |-> FALSE, val |-> acc, next |-> i]
         ELSE IF s[i + 1] \in {Quote, Backslash, "/"}
         THEN scanString(s, i + 2, Append(acc, s[i + 1]))
         ELSE [ok |-> FALSE, val |-> acc, next |-> i]
    ELSE scanString(s, i + 1, Append(acc, s[i]))

\* the members of a JSON object of s from i, read into a bundlePackage
RECURSIVE decodeMembers(_, _, _)
decodeMembers(s, i, acc) ==
    IF i > Len(s) THEN [acc EXCEPT !.ok = FALSE]
    ELSE IF s[i] # Quote THEN [acc EXCEPT !.ok = FALSE]
    ELSE LET k == scanString(s, i + 1, << >>)
         IN  IF ~k.ok \/ k.next + 1 > Len(s) THEN [acc EXCEPT !.ok = FALSE]
             ELSE IF s[k.next] # ":" \/ s[k.next + 1] # Quote
             THEN [acc EXCEPT !.ok = FALSE]
             ELSE LET v == scanString(s, k.next + 2, << >>)
                      b == base64Decode(v.val)
                      new == IF k.val = <<"e", "t", "a", "g">>
                             THEN [acc EXCEPT !.Etag = v.val]
                             ELSE IF k.val = <<"b", "u", "n", "d", "l", "e">>
                             THEN [acc EXCEPT !.Bundle = b.bytes, !.ok = b.ok]
                             ELSE acc
                  IN  IF ~v.ok \/ ~new.ok \/ v.next > Len(s)
                      THEN [acc EXCEPT !.ok = FALSE]
                      ELSE IF s[v.next] = "}" THEN new
                      ELSE IF s[v.next] = "," THEN decodeMembers(s, v.next + 1, new)
                      ELSE [acc EXCEPT !.ok = FALSE]

\* json.NewDecoder(f).Decode(&bundlePackage): the first JSON value of the
\* file, which has to be an object; what follows it is not read
jsonDecode(s) ==
    LET zero == [ok |-> TRUE, Etag |-> << >>, Bundle |-> << >>]
    IN  IF Len(s) < 2 THEN [zero EXCEPT !.ok = FALSE]
        ELSE IF s[1] # "{" THEN [zero EXCEPT !.ok = FALSE]
        ELSE IF s[2] = "}" THEN zero
        ELSE decodeMembers(s, 2, zero)

\* bundle.NewReader(...).Read(): the bundle of the bytes, which is taken to
\* be the bytes; no bytes are not a bundle
bundleRead(bytes) ==
    IF bytes = << >> THEN [err |-> BundleReadErr, bundle |-> << >>]
    ELSE [err |-> OK, bundle |-> bytes]

\* what LoadBundleFromDisk returns for the package file; the directory of
\* the model has no legacy bundle.tar.gz
loadBundle(file) ==
    IF file.exists
    THEN LET bundlePackage == jsonDecode(file.data)
             b == bundleRead(bundlePackage.Bundle)
         IN  IF ~bundlePackage.ok
             THEN [NoLoaded EXCEPT !.called = TRUE, !.err = DecodeErr]
             ELSE IF b.err # OK
             THEN [NoLoaded EXCEPT !.called = TRUE, !.err = b.err]
             ELSE [called |-> TRUE, err |-> OK, found |-> TRUE,
                   bundle |-> b.bundle, etag |-> bundlePackage.Etag]
    ELSE [NoLoaded EXCEPT !.called = TRUE]

\* SaveBundleToDisk(path, rawBundle, &SaveOptions{Etag: etag}); nil: the
\* reader is nil.  The temporary file is renamed to bundlePackage.json.
SaveBundleToDisk(nil, raw, etag) ==
    /\ pkg' = IF nil THEN [pkg EXCEPT !.serr = NoBundleErr]
              ELSE [pkg EXCEPT !.serr = OK,
                               !.file = [exists |-> TRUE,
                                         data |-> packageFile(etag, raw)],
                               !.saved = [ok |-> TRUE, bundle |-> raw,
                                          etag |-> etag]]
    /\ UNCHANGED <<hostVars, dl, agg, disc>>

\* LoadBundleFromDisk(path, &LoadOptions{})
LoadBundleFromDisk ==
    /\ pkg' = [pkg EXCEPT !.loaded = loadBundle(pkg.file)]
    /\ UNCHANGED <<hostVars, dl, agg, disc>>

(***************************************************************************)
(* Aggregate builtins (package topdown): min, max and sort.  A term is     *)
(* <<rank of its type, value>>; a collection is the sequence of its        *)
(* elements in the order Reduce visits them.                               *)
(***************************************************************************)
MaxAggLen == 3
Null == <<0, 0>>
AggTerms == {Null, <<1, 1>>, <<2, 1>>, <<2, 2>>}
AggOperands == SeqsUpTo(AggTerms, MaxAggLen)
\* ast.Compare: null before booleans before numbers, then by value
Compare(x, y) ==
    IF x[1] < y[1] THEN -1
    ELSE IF x[1] > y[1] THEN 1
    ELSE IF x[2] < y[2] THEN -1
    ELSE IF x[2] > y[2] THEN 1
    ELSE 0
\* Sorted: the elements in the order of ast.Compare
RECURSIVE Insert(_, _)
Insert(x, a) ==
    IF a = << >> THEN <<x>>
    ELSE IF Compare(x, Head(a)) <= 0 THEN <<x>> \o a
    ELSE <<Head(a)>> \o Insert(x, Tail(a))
RECURSIVE Sorted(_)
Sorted(a) == IF a = << >> THEN << >> ELSE Insert(Head(a), Sorted(Tail(a)))

\* the function builtinMax hands to Reduce
maxStep(max, elem) == IF Compare(max, elem) <= 0 THEN elem ELSE max
\* the function builtinMin hands to Reduce
minStep(min, elem) ==
    IF Compare(min, Null) = 0 THEN elem
    ELSE IF Compare(min, elem) >= 0 THEN elem
    ELSE min
\* a.Reduce(ast.NullTerm(), f) for the two functions
RECURSIVE ReduceMax(_, _)
ReduceMax(a, acc) ==
    IF a = << >> THEN acc ELSE ReduceMax(Tail(a), maxStep(acc, Head(a)))
RECURSIVE ReduceMin(_, _)
ReduceMin(a, acc) ==
    IF a = << >> THEN acc ELSE ReduceMin(Tail(a), minStep(acc, Head(a)))

\* builtinMax, builtinMin, builtinSort on the collection a; defined is
\* false for BuiltinEmpty
builtinMax(a) ==
    IF Len(a) = 0 THEN [op |-> "max", a |-> a, defined |-> FALSE, v |-> << >>]
    ELSE [op |-> "max", a |-> a, defined |-> TRUE, v |-> ReduceMax(a, Null)]
builtinMin(a) ==
    IF Len(a) = 0 THEN [op |-> "min", a |-> a, defined |-> FALSE, v |-> << >>]
    ELSE [op |-> "min", a |-> a, defined |-> TRUE, v |-> ReduceMin(a, Null)]
builtinSort(a) == [op |-> "sort", a |-> a, defined |-> TRUE, v |-> Sorted(a)]

\* a call of one of the three builtins
CallMax(a) == agg' = builtinMax(a) /\ UNCHANGED <<hostVars, dl, pkg, disc>>
CallMin(a) == agg' = builtinMin(a) /\ UNCHANGED <<hostVars, dl, pkg, disc>>
CallSort(a) == agg' = builtinSort(a) /\ UNCHANGED <<hostVars, dl, pkg, disc>>

(***************************************************************************)
(* Discovery (package discovery): the plugins it registers with the        *)
(* manager, starts and reconfigures when a discovery bundle arrives.       *)
(***************************************************************************)
\* the order in which getPluginSet looks at the plugins
PluginOrder == <<"bundle", "decision_logs", "status">>
\* where the processing of a bundle can fail: evaluateBundle,
\* getCustomPlugins, manager.Reconfigure, or the Start of one plugin
FailPoints == {"none", "evaluate", "custom", "manager"} \cup PluginNames
EvalErr == "EVAL"
ConfigErr == "CONFIG"
DownloadErr == "DOWNLOAD"
\* the updates the downloader hands over: an error, a bundle whose
\* configuration names some plugins, or neither
Updates ==
    [Error : BOOLEAN, hasBundle : BOOLEAN, config : SUBSET PluginNames,
     ETag : {"", "e1"}]

\* bundle.Lookup, logs.Lookup, status.Lookup: the plugin registered under
\* the name, nil when there is none
Lookup(ps, n) == ps[n].registered

\* getPluginSet with getBundlePlugin, getDecisionLogsPlugin and
\* getStatusPlugin: a plugin that Lookup does not find is made, registered
\* and put on Start, one that it finds is put on Reconfig
getPluginSet(ps, config) ==
    [Start |-> SelectSeq(PluginOrder, LAMBDA n : n \in config /\ ~Lookup(ps, n)),
     Reconfig |-> SelectSeq(PluginOrder, LAMBDA n : n \in config /\ Lookup(ps, n)),
     plugins |-> [n \in PluginNames |->
                    IF n \in config /\ ~Lookup(ps, n)
                    THEN [ps[n] EXCEPT !.registered = TRUE]
                    ELSE ps[n]]]

\* the plugins of starts on which the loop of reconfigure calls Start: those
\* up to the first whose Start returns an error
StartCalled(starts, fail) ==
    {starts[i] : i \in {k \in 1..Len(starts) :
                            \A j \in 1..(k - 1) : starts[j] # fail}}
InSeq(q, n) == \E i \in 1..Len(q) : q[i] = n

\* Discovery.reconfigure with processBundle: the error it returns and the
\* plugins of the manager afterwards
reconfigure(ps, config, fail) ==
    LET set == getPluginSet(ps, config)
        started == [n \in PluginNames |->
                        IF n \in StartCalled(set.Start, fail)
                        THEN [set.plugins[n] EXCEPT !.started = TRUE]
                        ELSE set.plugins[n]]
        reconfigured == [n \in PluginNames |->
                            IF InSeq(set.Reconfig, n)
                            THEN [started[n] EXCEPT !.reconfigured = TRUE,
                                                    !.early = @ \/ ~started[n].started]
                            ELSE started[n]]
    IN  IF fail = "evaluate" THEN [err |-> EvalErr, plugins |-> ps]
        ELSE IF fail = "custom" THEN [err |-> ConfigErr, plugins |-> set.plugins]
        ELSE IF fail = "manager" THEN [err |-> ConfigErr, plugins |-> set.plugins]
        ELSE IF InSeq(set.Start, fail) THEN [err |-> PluginErr, plugins |-> started]
        ELSE [err |-> OK, plugins |-> reconfigured]

\* Discovery.processUpdate, the callback of the discovery downloader
processUpdate(u, fail) ==
    /\ disc' =
            IF u.Error THEN [disc EXCEPT !.err = DownloadErr]
            ELSE IF u.hasBundle
            THEN LET r == reconfigure(disc.plugins, u.config, fail)
                 IN  IF r.err # OK
                     THEN [disc EXCEPT !.plugins = r.plugins, !.err = r.err]
                     ELSE [plugins |-> r.plugins, etag |-> u.ETag, err |-> OK]
            ELSE IF u.ETag = disc.etag THEN [disc EXCEPT !.err = OK]
            ELSE disc
    /\ UNCHANGED <<hostVars, dl, pkg, agg>>

(***************************************************************************)
(* Specifications                                                          *)
(***************************************************************************)
\* the life of a transaction
TxnStep(t) ==
    \/ \E w \in BOOLEAN : NewTransaction(t, w)
    \/ NewTransactionLock(t)
    \/ Commit(t)
    \/ \E ok \in BOOLEAN : CommitEngine(t, ok)
    \/ CommitReadTxn(t)
    \/ CommitUnlock(t)
    \/ CommitReturn(t)
    \/ Abort(t)

CPaths == {<< >>}
CVals == {Field("a", Scalar("1")) \cup Field("b", Scalar(NativeTwo))}
CIds == {"p"}
CBytes == {"x"}

\* Spec: two threads with read and write transactions on one store
Init == InitStore({})
Next ==
    \E t \in Threads \ {Observed} :
        \/ TxnStep(t)
        \/ \E p \in CPaths, v \in CVals : Write(t, AddOp, p, v)
        \/ \E id \in CIds, bs \in CBytes : UpsertPolicy(t, id, bs)
        \/ Register(t)
        \/ \E h \in Handles : DispatchQuiet(t, h)
Spec == Init /\ [][Next]_vars

\* SpecTrig: two threads; triggers are registered and unregistered
NextTrig ==
    \E t \in Threads \ {Observed} :
        \/ TxnStep(t)
        \/ Register(t)
        \/ \E h \in Handles : Unregister(t, h)
        \/ \E h \in Handles : DispatchQuiet(t, h)
SpecTrig == Init /\ [][NextTrig]_vars

\* SpecOps: one thread, every operation, also with transactions that are
\* stale, read-only or of another store
NextOps ==
    \/ TxnStep(Observed)
    \/ \E p \in CPaths : Read(Observed, p)
    \/ \E p \in CPaths, v \in CVals : Write(Observed, AddOp, p, v)
    \/ ListPolicies(Observed)
    \/ \E id \in CIds : GetPolicy(Observed, id)
    \/ \E id \in CIds, bs \in CBytes : UpsertPolicy(Observed, id, bs)
    \/ \E id \in CIds : DeletePolicy(Observed, id)
    \/ \E p \in CPaths : MakeDir(Observed, p)
    \/ Register(Observed)
    \/ \E h \in Handles, p \in CPaths : DispatchRead(Observed, h, p)
    \/ \E h \in Handles : DispatchRegister(Observed, h)
SpecOps == Init /\ [][NextOps]_vars

\* SpecData: one thread reads and writes the document of a partitioned store
DPartSets == {{}, {<<"a", pathWildcard>>}, {<<"a", "b">>}}
DPaths == {<< >>, <<"a">>, <<"a", "b">>, <<"a", "b", "c">>}
DVals == {Scalar("1"), Scalar(EmptyObj),
          Field("b", Field("c", Scalar(NativeTwo))) \cup Field("d", Scalar(EmptyObj))}

\* the thread's transaction has room for another write that changes it
WriteCap(t) == IF cur[t] = 0 THEN TRUE ELSE txns[cur[t]].nw < MaxWrites

InitData == \E parts \in DPartSets : InitStore(parts)
NextData ==
    \/ TxnStep(Observed)
    \/ \E p \in DPaths : Read(Observed, p)
    \/ \E op \in {AddOp, ReplaceOp}, p \in DPaths, v \in DVals :
            WriteCap(Observed) /\ Write(Observed, op, p, v)
    \/ \E p \in DPaths : WriteCap(Observed) /\ Write(Observed, RemoveOp, p, Scalar("null"))
SpecData == InitData /\ [][NextData]_vars

\* SpecPol: one thread works on the policies
PIds == {"p", "q"}
PBytes == {"x", "y"}
NextPol ==
    \/ TxnStep(Observed)
    \/ ListPolicies(Observed)
    \/ \E id \in PIds : GetPolicy(Observed, id)
    \/ \E id \in PIds, bs \in PBytes : UpsertPolicy(Observed, id, bs)
    \/ \E id \in PIds : DeletePolicy(Observed, id)
SpecPol == Init /\ [][NextPol]_vars

\* SpecLife: a directory is opened, used by one thread, closed and opened
\* again with other partitions
LPartSets == {{}, {<<"a", "b", "c">>}, {<<"a", pathWildcard, "d">>},
              {<<"a", "b", "c">>, <<"a", pathWildcard, "d">>},
              {<<"a">>, <<"a", "b", "c">>}, {<<"system", "x">>}}
LPaths == {<<"a", "z", "d">>}
LVals == {Scalar("1")}
\* the engine is open
Up == life.engine = "open"

InitDir(m) ==
    /\ db = {}
    /\ mgr = NoMgr
    /\ dl = NoDownloader
    /\ pkg = NoPkg
    /\ agg = NoCall
    /\ disc = NoDiscovery
    /\ life = NoStore
    /\ meta = m
    /\ partitions = {}
    /\ wmu = FALSE
    /\ rmu = [w |-> FALSE, r |-> 0]
    /\ xid = 0
    /\ txns = [x \in Xids |-> NoTxn]
    /\ triggers = {}
    /\ nhandles = 0
    /\ pc = [t \in Threads |-> "idle"]
    /\ cur = [t \in Threads |-> 0]
    /\ rtx = [t \in Threads |-> 0]
    /\ todo = [t \in Threads |-> {}]
    /\ ret = NoRet
    /\ fired = [x \in Xids |-> [h \in Handles |-> 0]]
    /\ ncommit = 0
    /\ hReg = [h \in Handles |-> 0]
    /\ hUnreg = [h \in Handles |-> -1]
\* the directory is empty
InitLife == InitDir(NoMeta)
NextLife ==
    \/ \E parts \in LPartSets : New(parts)
    \/ Close
    \/ Up /\ TxnStep(Observed)
    \/ Up /\ \E p \in LPaths : Read(Observed, p)
    \/ Up /\ \E p \in LPaths, v \in LVals : Write(Observed, AddOp, p, v)
    \/ Up /\ \E id \in CIds : GetPolicy(Observed, id)
    \/ Up /\ \E id \in CIds, bs \in CBytes : UpsertPolicy(Observed, id, bs)
SpecLife == InitLife /\ [][NextLife]_vars

\* SpecOpen: the directory is empty, or it was written with another schema
\* version; it is opened, written to, closed and opened again
OtherSchema == [metadata({systemPartition}) EXCEPT !.schema_version = 2]
InitOpen == \E m \in {NoMeta, OtherSchema} : InitDir(m)
NextOpen ==
    \/ \E parts \in LPartSets : New(parts)
    \/ Close
    \/ Up /\ TxnStep(Observed)
    \/ Up /\ \E p \in LPaths, v \in LVals : Write(Observed, AddOp, p, v)
SpecOpen == InitOpen /\ [][NextOpen]_vars

\* SpecGC: the GC goroutine of a store that is opened and closed; a goroutine
\* that can run does run
NextGC ==
    \/ \E parts \in LPartSets : New(parts)
    \/ Close
    \/ GCTick
    \/ GCSelect
    \/ GCRun
    \/ Up /\ \E w \in BOOLEAN : NewTransaction(Observed, w)
    \/ Up /\ NewTransactionLock(Observed)
    \/ Up /\ Abort(Observed)
SpecGC == InitLife /\ [][NextGC]_vars /\ WF_vars(GCSelect) /\ WF_vars(GCRun)

\* SpecVal: one thread writes values, some of which JSON cannot carry
VPaths == {<<"a">>, <<"a", "b">>}
VVals == {Scalar("1"), Scalar(NonFinite),
          Field("b", Scalar(NonFinite)) \cup Field("c", Scalar("1"))}
InitVal == InitStore({<<"a", pathWildcard>>})
NextVal ==
    \/ TxnStep(Observed)
    \/ \E p \in VPaths : Read(Observed, p)
    \/ \E op \in {AddOp, ReplaceOp}, p \in VPaths, v \in VVals : Write(Observed, op, p, v)
SpecVal == InitVal /\ [][NextVal]_vars

\* SpecMgr: a thread runs Manager.Start while a client commits policies,
\* and another asks for the compiler.  Threads that can run do run; a lock
\* that is free again and again is eventually given to who waits for it.
Client == "t3"
MIds == {"p"}
MBytes == {"x", "!"}
InsideCommit(t) ==
    \/ \E ok \in BOOLEAN : CommitEngine(t, ok)
    \/ CommitReadTxn(t)
    \/ \E h \in Handles : DispatchManager(t, h)
    \/ CommitUnlock(t)
    \/ CommitReturn(t)
NextMgr ==
    \/ \E ok \in BOOLEAN : ManagerStart(ok)
    \/ \E w \in BOOLEAN : NewTransaction(Client, w)
    \/ \E t \in {Starter, Client} : NewTransactionLock(t)
    \/ \E t \in {Starter, Client} : ManagerCommits(t) /\ Commit(t)
    \/ \E t \in {Starter, Client}, ok \in BOOLEAN : CommitEngine(t, ok)
    \/ \E t \in {Starter, Client} : CommitReadTxn(t)
    \/ \E t \in {Starter, Client}, h \in Handles : DispatchManager(t, h)
    \/ \E t \in {Starter, Client} : CommitUnlock(t)
    \/ \E t \in {Starter, Client} : CommitReturn(t)
    \/ Abort(Client)
    \/ \E id \in MIds, bs \in MBytes : UpsertPolicy(Client, id, bs)
    \/ Register(Client)
    \/ GetCompiler
SpecMgr ==
    /\ Init
    /\ [][NextMgr]_vars
    /\ WF_vars(\E ok \in BOOLEAN : ManagerStart(ok))
    /\ SF_vars(NewTransactionLock(Starter))
    /\ SF_vars(NewTransactionLock(Client))
    /\ WF_vars(Commit(Client) \/ Abort(Client))
    /\ WF_vars(ManagerCommits(Starter) /\ Commit(Starter))
    /\ WF_vars(InsideCommit(Starter))
    /\ WF_vars(InsideCommit(Client))


\* SpecReload: Manager.Start has set the compiler from an empty store and is
\* at its storage.Txn with no transaction open, its first transaction being
\* out of the way; it registers its trigger while a client commits policies
AtTxn == [NoMgr EXCEPT !.pc = "txn", !.compiler = {}]
InitReload == InitStoreMgr({}, AtTxn)
SpecReload == InitReload /\ [][NextMgr]_vars

\* SpecDl: a downloader is given a callback or not, started, polls a server
\* that answers anything, and is stopped by up to two calls of Stop
InitDl == Init
NextDl ==
    \/ WithCallback
    \/ DownloaderStart
    \/ \E resp \in Responses : Download(resp)
    \/ \E cb \in {OK, CallbackErr} : OneShot(cb)
    \/ TimerFires
    \/ \E s \in Stoppers : Stop(s)
    \/ \E s \in Stoppers : LoopStop(s)
    \/ LoopAck
SpecDl == InitDl /\ [][NextDl]_vars

\* SpecDlFair: the same, with a loop goroutine that runs when it can: a
\* request gets its response, the callback returns, the timer fires, and a
\* select that finds a Stop sending again and again receives from it.
\* Whether Start and Stop are called is up to the caller.
SpecDlFair ==
    /\ InitDl
    /\ [][NextDl]_vars
    /\ WF_vars(\E resp \in Responses : Download(resp))
    /\ WF_vars(\E cb \in {OK, CallbackErr} : OneShot(cb))
    /\ WF_vars(TimerFires)
    /\ SF_vars(\E s \in Stoppers : LoopStop(s))
    /\ WF_vars(LoopAck)

\* SpecPkg: bundles are saved to one directory, which is empty at first, and
\* loaded from it
InitPkg == Init
NextPkg ==
    \/ \E nil \in BOOLEAN, raw \in RawBundles, etag \in SaveEtags :
            SaveBundleToDisk(nil, raw, etag)
    \/ LoadBundleFromDisk
SpecPkg == InitPkg /\ [][NextPkg]_vars

\* SpecAgg: min, max and sort are called on collections of up to MaxAggLen
\* terms
NextAgg ==
    \/ \E a \in AggOperands : CallMax(a)
    \/ \E a \in AggOperands : CallMin(a)
    \/ \E a \in AggOperands : CallSort(a)
SpecAgg == Init /\ [][NextAgg]_vars

\* SpecDisc: discovery processes any sequence of updates, each of which can
\* fail at any one point
NextDisc == \E u \in Updates, fail \in FailPoints : processUpdate(u, fail)
SpecDisc == Init /\ [][NextDisc]_vars

(***************************************************************************)
(* Properties                                                              *)
(***************************************************************************)
\* the thread that holds transaction x is inside Commit, past the engine commit
Committing(x) ==
    \E t \in Threads : cur[t] = x /\ pc[t] \in {"c_readtxn", "c_dispatch", "c_unlock_w"}

\* write transaction x has been handed out and neither Commit nor Abort has
\* returned for it
WriteOpen(x) == txns[x].write /\ (txns[x].st = "open" \/ Committing(x))

\* C1: at any moment at most one write transaction exists that NewTransaction
\* has returned and that has been neither committed nor aborted.
C1_OneWriter == Cardinality({x \in Xids : WriteOpen(x)}) <= 1

\* a write transaction is open while another thread waits in
\* NewTransaction(write) for db.wmu
C1_Witness ==
    \E x \in Xids, t \in Threads :
        /\ WriteOpen(x)
        /\ pc[t] = "nt_lock"
        /\ txns[cur[t]].write

\* the engine's content after the n-th successful commit
StateAfter(n) ==
    IF n = 0 THEN {}
    ELSE IF \E y \in Xids : txns[y].cseq = n
    THEN txns[CHOOSE y \in Xids : txns[y].cseq = n].result
    ELSE {}

ProbePaths == {<< >>, <<"a">>, <<"b">>}

\* what a transaction that sees exactly the content kv reads
SeesExactly(x, kv) ==
    /\ \A p \in ProbePaths : StoreRead(x, p) = txnRead(kv, partitions, p)
    /\ \A id \in CIds : StoreGetPolicy(x, id) = txnGetPolicy(kv, id)

ReadTxnOpen(x) == ~txns[x].write /\ txns[x].st = "open"

\* C2: an open read transaction reads exactly the content left by the commits
\* that had succeeded when it was opened (all of each write transaction's
\* writes or none of them), whatever has been committed or staged since, and
\* those commits include every commit that had returned before
\* NewTransaction was called.
C2_Snapshot ==
    \A x \in Xids :
        ReadTxnOpen(x) =>
            /\ SeesExactly(x, StateAfter(txns[x].seq))
            /\ txns[x].seq >= txns[x].sdone

\* a read transaction opened after one commit is still open after a second
\* commit has changed the content: it reads all of the first transaction's
\* writes and none of the second's
C2_Witness ==
    \E x \in Xids :
        /\ ReadTxnOpen(x)
        /\ txns[x].seq >= 1
        /\ StateAfter(txns[x].seq) # {}
        /\ StateAfter(txns[x].seq) # db
        /\ StoreRead(x, << >>) # txnRead(db, partitions, << >>)

\* C3: the engine's content changes only in the engine commit of a write
\* transaction, which installs all of that transaction's writes in one step;
\* a transaction that ends without a successful commit leaves the content as
\* it was; staging a write changes no other transaction's view; and a
\* transaction opened later starts from the committed content.
C3_Step ==
    /\ db' # db =>
        \E t \in Threads :
            /\ pc[t] = "c_engine" /\ pc'[t] = "c_readtxn"
            /\ db' = EngineCommit(db, txns[cur[t]])
    /\ \A x \in Xids :
        /\ (txns[x].st = "open" /\ txns'[x].st = "stale" /\ txns'[x].cseq = 0) => db' = db
        /\ (txns[x].st = "open" /\ txns'[x].st = "open" /\ txns'[x].view # txns[x].view) =>
                txns[x].write /\ \E t \in Threads : cur[t] = x /\ pc[t] = "idle"
        /\ (txns[x].st = "opening" /\ txns'[x].st = "open") => txns'[x].view = db

C3_Atomic == [][C3_Step]_vars

\* a write transaction with staged writes has been aborted, another one has
\* committed, and db.wmu is free again
C3_Witness ==
    /\ ~wmu
    /\ db # {}
    /\ \E x \in Xids :
        txns[x].write /\ txns[x].st = "stale" /\ txns[x].cseq = 0 /\ txns[x].nw > 0

\* C4: a trigger is invoked at most once per commit and only for a write
\* transaction whose engine commit succeeded; when Commit has returned nil,
\* exactly the triggers registered at the commit have been invoked once.
C4_OncePerCommit ==
    \A x \in Xids :
        /\ \A h \in Handles : fired[x][h] <= 1
        /\ (\E h \in Handles : fired[x][h] > 0) => txns[x].write /\ txns[x].cseq > 0
        /\ txns[x].done => \A h \in Handles : fired[x][h] = (IF h \in txns[x].trg THEN 1 ELSE 0)

\* one commit has invoked a trigger and returned; another write transaction
\* ended without a successful commit and a read transaction was committed
C4_Witness ==
    /\ \E x \in Xids : txns[x].done /\ txns[x].trg # {}
    /\ \E y \in Xids : txns[y].write /\ txns[y].st = "stale" /\ txns[y].cseq = 0
    /\ \E z \in Xids : ~txns[z].write /\ txns[z].st = "stale"

\* C5: while the triggers of a commit are dispatched, the read-only
\* transaction handed to them reads exactly the content that commit left,
\* and no later commit has happened.
C5_TriggerTxn ==
    \A t \in Threads :
        pc[t] = "c_dispatch" =>
            /\ ReadTxnOpen(rtx[t])
            /\ SeesExactly(rtx[t], txns[cur[t]].result)
            /\ db = txns[cur[t]].result
            /\ ncommit = txns[cur[t]].cseq

\* a callback has been invoked for a commit that changed the content while
\* another thread waits to open a write transaction
C5_Witness ==
    \E t, u \in Threads :
        /\ pc[t] = "c_dispatch"
        /\ \E h \in Handles : fired[cur[t]][h] = 1
        /\ txns[cur[t]].result # StateAfter(txns[cur[t]].cseq - 1)
        /\ pc[u] = "nt_lock" /\ txns[cur[u]].write

\* transaction x is of another store, or Commit or Abort has ended it
Invalid(x) == IF x = 0 THEN TRUE ELSE txns[x].st = "stale"

CheckedOps == {"Read", "Write", "ListPolicies", "GetPolicy", "UpsertPolicy",
               "DeletePolicy", "Register", "MakeDir", "Commit"}

\* C6: a call of Read, Write, ListPolicies, GetPolicy, UpsertPolicy,
\* DeletePolicy, Register, MakeDir or Commit with a stale transaction or one
\* of another store returns INVALID_TRANSACTION and changes neither data,
\* transactions, trigger registry nor locks.
C6_Step ==
    (/\ pc[Observed] = "idle"
     /\ ret' # ret
     /\ ret'.op \in CheckedOps
     /\ Invalid(ret'.x))
    => /\ ret'.err = InvalidTransactionErr
       /\ UNCHANGED <<db, txns, triggers, nhandles, wmu, rmu>>

C6_InvalidTxn == [][C6_Step]_vars

\* a call with a stale transaction was refused in a store that has content
\* and a registered trigger
C6_Witness ==
    /\ ret.op \in CheckedOps
    /\ ret.err = InvalidTransactionErr
    /\ ret.x # 0
    /\ txns[ret.x].st = "stale"
    /\ db # {}
    /\ triggers # {}

\* C7: Register with a valid read transaction, the one handed to a trigger
\* callback included, returns INVALID_TRANSACTION and leaves the registry as
\* it was.
C7_Step ==
    (/\ ret' # ret
     /\ ret'.op = "Register"
     /\ ret'.x # 0
     /\ ReadTxnOpen(ret'.x))
    => /\ ret'.err = InvalidTransactionErr
       /\ UNCHANGED <<triggers, nhandles>>

C7_RegisterRead == [][C7_Step]_vars

\* a trigger callback called Register with the transaction it was handed
C7_Witness ==
    /\ pc[Observed] = "c_dispatch"
    /\ ret.op = "Register"
    /\ ret.x = rtx[Observed]
    /\ ret.err = InvalidTransactionErr

\* handle h was registered before the c-th commit and not unregistered before it
RegisteredAt(h, c) ==
    /\ h <= nhandles
    /\ hReg[h] < c
    /\ (hUnreg[h] = -1 \/ hUnreg[h] >= c)

\* C8: a commit that returned nil has invoked exactly the triggers registered
\* in its own or an earlier write transaction and not unregistered in its own
\* or an earlier write transaction.
C8_RegisteredFire ==
    \A x \in Xids :
        txns[x].done =>
            \A h \in Handles :
                fired[x][h] = (IF RegisteredAt(h, txns[x].cseq) THEN 1 ELSE 0)

\* a trigger registered in a transaction was invoked at that transaction's
\* commit, then unregistered in a second transaction and not invoked at its
\* commit
C8_Witness ==
    \E x, y \in Xids, h \in Handles :
        /\ txns[x].done /\ txns[y].done
        /\ hReg[h] = txns[x].cseq - 1
        /\ fired[x][h] = 1
        /\ hUnreg[h] = txns[y].cseq - 1
        /\ fired[y][h] = 0

\* the last write of the transaction whose commit was the n-th
CommittedWrite(n) ==
    IF n >= 1 /\ \E y \in Xids : txns[y].cseq = n
    THEN txns[CHOOSE y \in Xids : txns[y].cseq = n].lw
    ELSE NoWrite

\* the write that last touched what open transaction x sees: its own last
\* write, or that of the commit it started from
LastWrite(x) ==
    IF txns[x].lw.op # "" THEN txns[x].lw ELSE CommittedWrite(txns[x].seq)

\* C9: when the last write of a committed transaction was an add or replace
\* of value V at path P, a transaction opened on that commit reads V (as
\* JSON) at P, whatever the partitions are; so does the Read it calls.
C9_ReadBack ==
    /\ \A x \in Xids :
        (/\ txns[x].st = "open"
         /\ txns[x].lw.op = ""
         /\ CommittedWrite(txns[x].seq).op \in {AddOp, ReplaceOp})
        => StoreRead(x, CommittedWrite(txns[x].seq).p)
               = [err |-> OK, val |-> CommittedWrite(txns[x].seq).v]
    /\ (/\ ret.op = "Read"
        /\ ret.x # 0
        /\ txns[ret.x].st = "open"
        /\ txns[ret.x].lw.op = ""
        /\ CommittedWrite(txns[ret.x].seq).op \in {AddOp, ReplaceOp}
        /\ CommittedWrite(txns[ret.x].seq).p = ret.p)
       => ret.err = OK /\ ret.val = CommittedWrite(txns[ret.x].seq).v

\* a later read transaction has read back an object that a committed write
\* put at a path above the keys of a user partition
C9_Witness ==
    /\ ret.op = "Read"
    /\ ret.x # 0
    /\ ReadTxnOpen(ret.x)
    /\ CommittedWrite(txns[ret.x].seq).op \in {AddOp, ReplaceOp}
    /\ CommittedWrite(txns[ret.x].seq).p = ret.p
    /\ ret.err = OK
    /\ partitions # {systemPartition}
    /\ ret.p # << >>
    /\ InTrie(partitions, ret.p)
    /\ \E l \in ret.val : Len(l[1]) >= 2 /\ l[2] = "2"

\* C10, after a remove: a transaction whose content was last touched by a
\* remove of path P reads NOT_FOUND at P, and its read of the root has
\* nothing at or under P.
C10_Removed ==
    \A x \in Xids :
        (txns[x].st = "open" /\ LastWrite(x).op = RemoveOp) =>
            /\ StoreRead(x, LastWrite(x).p).err = NotFoundErr
            /\ \A l \in StoreRead(x, << >>).val : ~IsPrefix(LastWrite(x).p, l[1])

\* C10, a path that does not exist: a remove or replace of it in a write
\* transaction returns NOT_FOUND and changes nothing.
C10_Step ==
    (/\ pc[Observed] = "idle"
     /\ ret' # ret
     /\ ret'.op = "Write"
     /\ ret'.wop \in {RemoveOp, ReplaceOp}
     /\ ret'.x # 0
     /\ txns[ret'.x].st = "open"
     /\ txns[ret'.x].write
     /\ txnRead(txns[ret'.x].view, partitions, ret'.p).err = NotFoundErr)
    => /\ ret'.err = NotFoundErr
       /\ UNCHANGED <<db, txns>>

C10_Remove == []C10_Removed /\ [][C10_Step]_vars

\* a remove has succeeded at a path whose subtree was spread over two keys
\* of a user partition, and other content remains
C10_Witness ==
    /\ ret.op = "Write"
    /\ ret.wop = RemoveOp
    /\ ret.err = OK
    /\ ret.x # 0
    /\ txns[ret.x].st = "open"
    /\ txns[ret.x].lw = [op |-> RemoveOp, p |-> ret.p, v |-> Scalar("null")]
    /\ partitions # {systemPartition}
    /\ ret.p # << >>
    /\ Cardinality({u[1] : u \in Iterate(txns[ret.x].base, DataPrefix2Key(ret.p))}) >= 2

\* the data items of a view, the document they make up, and the same
\* document laid out for the partitions parts
DataItems(view) == Iterate(view, DataPrefix2Key(<< >>))
Doc(view) == {<<Logical(u), u[3]>> : u \in DataItems(view)}
Reshard(view, parts) ==
    (view \ DataItems(view)) \cup {Shard(parts, l[1], l[2]) : l \in Doc(view)}

Unpartitioned == {systemPartition}

CanonVals == {RoundTrip(v).val : v \in DVals}

Occurs(ids, id) == Cardinality({k \in 1..Len(ids) : ids[k] = id})

\* the last call was a successful UpsertPolicy and its transaction is open
Upserted ==
    /\ ret.op = "UpsertPolicy"
    /\ ret.err = OK
    /\ txns[ret.x].st = "open"

\* C12, the state after UpsertPolicy(i, b): the transaction holds b for i and
\* lists i once.
C12_After ==
    Upserted =>
        /\ StoreGetPolicy(ret.x, ret.p[1]) = [err |-> OK, val |-> ret.val]
        /\ Occurs(txnListPolicies(txns[ret.x].view), ret.p[1]) = 1

\* C12, the calls after UpsertPolicy(i, b): GetPolicy(i) returns b and
\* ListPolicies returns i exactly once.
C12_Step ==
    /\ (Upserted /\ ret'.op = "GetPolicy" /\ ret'.x = ret.x /\ ret'.p = ret.p)
        => ret'.err = OK /\ ret'.val = ret.val
    /\ (Upserted /\ ret'.op = "ListPolicies" /\ ret'.x = ret.x)
        => ret'.err = OK /\ Occurs(ret'.p, ret.p[1]) = 1

C12_Upsert == []C12_After /\ [][C12_Step]_vars

\* ListPolicies has listed two policies in a transaction that had replaced
\* the committed bytes of one of them
C12_Witness ==
    /\ ret.op = "ListPolicies"
    /\ ret.err = OK
    /\ Len(ret.p) = 2
    /\ ret.x # 0
    /\ txns[ret.x].st = "open"
    /\ \E id \in PIds :
        /\ txnGetPolicy(txns[ret.x].base, id).err = OK
        /\ txnGetPolicy(txns[ret.x].view, id).err = OK
        /\ txnGetPolicy(txns[ret.x].view, id) # txnGetPolicy(txns[ret.x].base, id)

\* C13: DeletePolicy in a write transaction returns NOT_FOUND and changes
\* nothing when the id is not stored; otherwise it succeeds, the id is then
\* not found, and every other policy and all data are as before.
C13_Step ==
    (/\ pc[Observed] = "idle"
     /\ ret' # ret
     /\ ret'.op = "DeletePolicy"
     /\ ret'.x # 0
     /\ txns[ret'.x].st = "open"
     /\ txns[ret'.x].write)
    => LET x == ret'.x
           id == ret'.p[1]
       IN  IF txnGetPolicy(txns[x].view, id).err # OK
           THEN /\ ret'.err = NotFoundErr
                /\ UNCHANGED <<db, txns>>
           ELSE /\ ret'.err = OK
                /\ txnGetPolicy(txns'[x].view, id).err = NotFoundErr
                /\ \A j \in PIds \ {id} :
                    txnGetPolicy(txns'[x].view, j) = txnGetPolicy(txns[x].view, j)
                /\ DataItems(txns'[x].view) = DataItems(txns[x].view)
                /\ db' = db

C13_Delete == [][C13_Step]_vars

\* a stored policy has been deleted while another one stays, and a delete
\* of an id that is not stored was refused
C13_Witness ==
    /\ ret.op = "DeletePolicy"
    /\ ret.err = NotFoundErr
    /\ ret.x # 0
    /\ txns[ret.x].st = "open"
    /\ txns[ret.x].write
    /\ txnGetPolicy(txns[ret.x].base, ret.p[1]).err = OK
    /\ \E j \in PIds \ {ret.p[1]} : txnGetPolicy(txns[ret.x].view, j).err = OK

(***************************************************************************)
(* Opening, reopening and closing                                          *)
(***************************************************************************)
\* the partitions the last New was given
Declared == {l[1] : l \in ret.val}
\* pattern a is a prefix of pattern b, * matching any single segment
PrefixOf(a, b) ==
    /\ Len(a) <= Len(b)
    /\ \A i \in 1..Len(a) : a[i] = b[i] \/ pathWildcard \in {a[i], b[i]}
\* two of the patterns overlap, or one overlaps the system partition
Overlapping(parts) ==
    \E a \in parts : \E b \in (parts \cup {systemPartition}) \ {a} :
        PrefixOf(a, b) \/ PrefixOf(b, a)

\* C14: New fails with INTERNAL when two of the partitions it is given
\* overlap, or one of them overlaps /system/*: no store is opened, and the
\* metadata the engine holds stays as it was.
C14_Step ==
    \A parts \in LPartSets :
        (New(parts) /\ Overlapping(parts))
            => /\ ret'.err = InternalErr
               /\ meta' = meta
               /\ life' = life
               /\ UNCHANGED <<db, partitions, storeVars>>
C14_Overlap == [][C14_Step]_vars
\* New has refused overlapping partitions on a directory that was never opened
C14_Witness ==
    /\ ret.op = "New"
    /\ ret.err = InternalErr
    /\ Overlapping(Declared)
    /\ ~IsDisjoint(Declared)
    /\ ~meta.found
    /\ life.engine = "closed"

\* paths read back after a reopen
LProbe == {<< >>, <<"a">>, <<"a", "z">>, <<"a", "z", "d">>}

\* C15: the first New on a directory persists the metadata: the supported
\* schema version, the base partition version, the partitions given and
\* /system/*.  A New with the partitions that are persisted succeeds, and
\* every path and every policy reads as it did before.
C15_Step ==
    \A parts \in LPartSets :
        New(parts) =>
            /\ (~meta.found /\ ~Overlapping(parts))
                    => /\ ret'.err = OK
                       /\ meta'.found
                       /\ meta'.schema_version = supportedSchemaVersion
                       /\ meta'.partition_version = basePartitionVersion
                       /\ meta'.partitions = parts \cup {systemPartition}
            /\ (meta.found /\ meta.partitions = parts \cup {systemPartition})
                    => /\ ret'.err = OK
                       /\ life'.engine = "open"
                       /\ meta' = meta
                       /\ \A p \in LProbe :
                            txnRead(db', partitions', p) = txnRead(db, meta.partitions, p)
                       /\ \A id \in CIds : txnGetPolicy(db', id) = txnGetPolicy(db, id)
C15_Reopen == [][C15_Step]_vars
\* a store with data and a policy written under /a/b/c has been opened again
\* with /a/b/c, and no transaction has been made yet
C15_Witness ==
    /\ ret.op = "New"
    /\ ret.err = OK
    /\ Up
    /\ xid = 0
    /\ Declared = {<<"a", "b", "c">>}
    /\ meta = metadata(Declared \cup {systemPartition})
    /\ txnRead(db, partitions, <<"a", "z", "d">>) = [err |-> OK, val |-> Scalar("1")]
    /\ KeyFound(db, DataPath2Key(<<"a", "z">>))
    /\ txnGetPolicy(db, "p").err = OK

\* C16: a New whose partitions lack one of the persisted partitions fails
\* with INTERNAL and leaves the metadata alone; so the persisted partitions
\* never lose an element.
C16_Step ==
    /\ \A parts \in LPartSets :
            (New(parts) /\ meta.found
                /\ ~(meta.partitions \subseteq parts \cup {systemPartition}))
                => ret'.err = InternalErr /\ meta' = meta /\ life'.engine = "closed"
    /\ meta.found => meta'.found /\ meta.partitions \subseteq meta'.partitions
C16_NoRemoval == [][C16_Step]_vars
\* New has refused disjoint partitions that lack the persisted /a/*/d, after
\* a reopen had added a partition
C16_Witness ==
    /\ ret.op = "New"
    /\ ret.err = InternalErr
    /\ ~Overlapping(Declared)
    /\ Declared = {<<"a", "b", "c">>}
    /\ meta.partitions = {<<"a", "b", "c">>, <<"a", pathWildcard, "d">>, systemPartition}
    /\ ~Up

\* the engine holds a value at a key that lies on pattern q, * standing for
\* any segment: with q a partition the value would have to be split
Splits(q, kv) ==
    \E u \in Iterate(kv, DataPrefix2Key(<< >>)) : InTrie({q}, DataKey2Path(u[1]))

\* C17: a New that adds partitions to the persisted ones succeeds when no
\* value is stored on any of them, and fails with INTERNAL when a value is
\* stored on one of them, patterns with wildcards included.
C17_Step ==
    \A parts \in LPartSets :
        (New(parts) /\ meta.found /\ ~Overlapping(parts)
            /\ meta.partitions \subseteq parts \cup {systemPartition})
            => LET added == (parts \cup {systemPartition}) \ meta.partitions
               IN  /\ (\A q \in added : ~Splits(q, db)) => ret'.err = OK
                   /\ (\E q \in added : Splits(q, db)) => ret'.err = InternalErr
C17_Added == [][C17_Step]_vars

\* C18: after Close the GC goroutine of the store returns: once the ticker
\* is stopped, the goroutine is eventually gone.
C18_GCExits == (life.ticker = "stopped") ~> (life.gc = "exited")

\* C19: Close does not close the engine while a transaction of the store is
\* open, neither committed nor aborted.
C19_Step ==
    (Close /\ Up) => \A x \in Xids : txns[x].st \notin {"opening", "open"}
C19_CloseWaits == [][C19_Step]_vars

\* C20: when the engine commit of a write transaction fails, Commit returns
\* the error, the engine holds what it held, and both locks are free again,
\* so that the next NewTransaction can take them.
C20_Step ==
    CommitEngine(Observed, FALSE)
        => /\ ret'.op = "Commit" /\ ret'.err = EngineErr /\ pc'[Observed] = "idle"
           /\ db' = db
           /\ ~wmu' /\ ~rmu'.w
C20_CommitFails == [][C20_Step]_vars

(***************************************************************************)
(* The locks inside Commit                                                 *)
(***************************************************************************)
\* thread t holds an open write transaction and is about to call Commit
AboutToCommit(t) ==
    /\ pc[t] = "idle"
    /\ IF cur[t] = 0 THEN FALSE
       ELSE txns[cur[t]].write /\ txns[cur[t]].st = "open"

\* C21: Commit of a write transaction performs the engine commit first and
\* takes the reader lock only afterwards: a writer that calls Commit gets to
\* its engine commit whatever read transactions are open.
C21_EngineFirst == \A t \in Threads : AboutToCommit(t) => ENABLED Commit(t)

\* C22: when Commit has returned, the read-only transaction it opened for
\* the triggers is no longer open.
C22_ReadTxnAborted ==
    \A t \in Threads :
        (pc[t] = "idle" /\ rtx[t] # 0) => txns[rtx[t]].st # "open"

\* C23: Write refuses a value that does not survive the round trip through
\* JSON with an error and touches no key: the transaction, if it is one of
\* the store, is as it was before the call, open when it was open.
C23_Step ==
    \A op \in {AddOp, ReplaceOp}, p \in VPaths, v \in VVals :
        (Write(Observed, op, p, v) /\ RoundTrip(v).err # OK)
            => /\ ret'.op = "Write"
               /\ ret'.err # OK
               /\ txns' = txns
               /\ db' = db
               /\ UNCHANGED lockVars
C23_Rejected == [][C23_Step]_vars
\* a write transaction that had staged a value has been refused a value with
\* a non-finite number, and is still open with what it had staged
C23_Witness ==
    /\ ret.op = "Write"
    /\ ret.err = InvalidValueErr
    /\ txns[ret.x].st = "open"
    /\ txns[ret.x].write
    /\ txns[ret.x].view # txns[ret.x].base
    /\ ENABLED Abort(Observed)

(***************************************************************************)
(* The plugin manager                                                      *)
(***************************************************************************)
\* C24: Manager.Start ends every transaction it opens: when it has returned,
\* with or without an error, the transaction of its first statement has been
\* committed or aborted; and it does not ask for a second write transaction
\* while that one is open.
C24_StartEndsTxns ==
    /\ mgr.pc = "returned" => txns[mgr.txn].st = "stale"
    /\ (mgr.pc = "register" /\ pc[Starter] = "nt_lock") => txns[mgr.txn].st = "stale"

\* C25: once Start has asked for the transaction in which it registers its
\* trigger, it returns with the trigger registered; and a commit whose event
\* delivered to that trigger reports a policy change
\* replaces the compiler by one built from the policies the trigger's
\* transaction shows, any other commit leaves the compiler alone.
C25_Step ==
    \A t \in {Starter, Client} :
        (Visit(t, mgr.handle) /\ mgr.handle # 0) =>
            IF txns[cur[t]].pol /\ loadCompilerFromStore(rtx[t]).err = OK
            THEN mgr'.compiler = {<<(<<u[1][2]>>), u[3]>> :
                                    u \in Iterate(txns[rtx[t]].view, <<"policies">>)}
            ELSE txns[cur[t]].pol \/ mgr'.compiler = mgr.compiler
AttemptFailed == dl.res.err # OK \/ dl.cberr # OK
C26_Step ==
    /\ dl'.etag # dl.etag =>
            /\ dl.pc = "callback" /\ dl'.pc = "select"
            /\ dl.res.err = OK /\ dl'.cberr = OK
            /\ dl'.etag = dl.res.etag
    /\ (dl.pc = "oneShot" /\ dl'.pc = "callback" /\ dl.attempted /\ AttemptFailed)
            => dl'.inm = dl.inm
\* C26: Downloader.etag changes only at the end of an attempt whose
\* download and callback both returned nil, and the request that follows an
\* attempt that failed carries the If-None-Match value of the request before
C26_EtagKept == [][C26_Step]_vars
\* the callback refused the bundle of ETag v2 and v1 is still stored
C26_Witness ==
    /\ dl.pc = "select" /\ dl.etag = "v1" /\ dl.inm = "v1"
    /\ dl.res = [bundle |-> TRUE, etag |-> "v2", err |-> OK]
    /\ dl.cberr = CallbackErr

\* a call of Stop has returned
StopReturned == \E s \in Stoppers : dl.stop[s] = "returned"
C27_Step ==
    StopReturned =>
        /\ dl'.pc = dl.pc /\ dl'.inm = dl.inm /\ dl'.res = dl.res
        /\ dl'.cberr = dl.cberr /\ dl'.etag = dl.etag
\* C27: once a call of Stop has returned, the loop has exited with its
\* context cancelled, and it sends no request and calls no callback afterwards
C27_Stopped ==
    /\ [](StopReturned => dl.pc = "exited" /\ dl.cancelled)
    /\ [][C27_Step]_vars
\* Stop has returned after a download, while a second Stop is being called
C27_Witness ==
    /\ dl.stop["s1"] = "returned" /\ dl.stop["s2"] = "send"
    /\ dl.attempted /\ dl.f

(***************************************************************************)
(* Bundle persistence                                                      *)
(***************************************************************************)
C28_Step ==
    (pkg'.loaded # pkg.loaded /\ pkg.saved.ok) =>
        /\ pkg'.loaded.err = OK /\ pkg'.loaded.found
        /\ pkg'.loaded.bundle = pkg.saved.bundle
        /\ pkg'.loaded.etag = pkg.saved.etag
\* C28: a load that follows one or more saves returns the bundle and the
\* etag of the last save, for every raw bundle and every etag
C28_RoundTrip == [][C28_Step]_vars

(***************************************************************************)
(* Readers, the registry and the dispatch                                  *)
(***************************************************************************)
\* thread u holds a read transaction that NewTransaction returned to it
CallerReadOpen(u) ==
    IF cur[u] = 0 THEN FALSE
    ELSE ~txns[cur[u]].write /\ txns[cur[u]].st = "open"
\* C29: while a commit dispatches to the triggers no read transaction that
\* a caller opened is open: none is left when the dispatch starts and none
\* is handed out before it has ended
C29_NoReaders ==
    \A t \in Threads : pc[t] = "c_dispatch" => \A u \in Threads : ~CallerReadOpen(u)
\* a trigger is yet to be called while another thread waits in
\* NewTransaction for its read transaction
C29_Witness ==
    \E t \in Threads, u \in Threads :
        /\ pc[t] = "c_dispatch" /\ todo[t] # {}
        /\ pc[u] = "nt_lock" /\ ~txns[cur[u]].write

\* thread t is where it can insert into, remove from or range over
\* db.triggers: Register or Unregister would pass their checks with its
\* transaction, or it is in the dispatch loop of Commit
Touches(t) ==
    \/ pc[t] = "c_dispatch"
    \/ pc[t] = "idle" /\ (StoreRegister(cur[t]) = OK \/ HandleUnregister(cur[t]) = OK)
\* the write transaction of thread t has db.wmu: NewTransaction has locked
\* it and neither Abort nor Commit has unlocked it
HoldsWmu(t) ==
    IF cur[t] = 0 THEN FALSE
    ELSE /\ txns[cur[t]].write
         /\ \/ txns[cur[t]].st = "open"
            \/ pc[t] \in {"c_engine", "c_readtxn", "c_dispatch", "c_unlock_w"}
\* C30: a thread that can access the trigger registry does so with the
\* write transaction that holds db.wmu, and no other thread can access the
\* registry or holds db.wmu then
C30_RegistryUnderWmu ==
    \A t \in Threads :
        Touches(t) =>
            /\ wmu /\ HoldsWmu(t)
            /\ \A u \in Threads \ {t} : ~Touches(u) /\ ~HoldsWmu(u)
\* a commit ranges over two triggers while another thread waits in
\* NewTransaction for db.wmu
C30_Witness ==
    \E t \in Threads, u \in Threads :
        /\ pc[t] = "c_dispatch" /\ todo[t] # {} /\ Cardinality(triggers) = 2
        /\ pc[u] = "nt_lock" /\ txns[cur[u]].write

(***************************************************************************)
(* Locks and transactions                                                  *)
(***************************************************************************)
\* C31: every transaction gives back the lock it took once, at its Commit
\* or Abort, and an Abort of a stale transaction gives back nothing: the
\* read shares taken are those of the open read transactions, and db.wmu
\* is locked exactly while a write transaction that is neither committed
\* nor aborted holds it
C31_ReleasedOnce ==
    /\ rmu.r = Cardinality({t \in Threads : CallerReadOpen(t)})
    /\ wmu <=> \E t \in Threads : HoldsWmu(t)

(***************************************************************************)
(* The retry count of the downloader                                       *)
(***************************************************************************)
\* C32: the delay after the k-th failed download in a row is the back-off
\* for retry count k-1; after a download that succeeded, with or without a
\* callback error, the delay is the polling delay and the count is 0 again
C32_RetryCount ==
    /\ dl.pc = "oneShot" => dl.retry = dl.fails
    /\ dl.pc \in {"select", "ack"} =>
            dl.delay = IF dl.res.err # OK
                       THEN [kind |-> "backoff", retry |-> dl.fails - 1]
                       ELSE [kind |-> "poll", retry |-> 0]
\* the second download in a row has failed and the back-off is that of
\* retry count 1
C32_Witness ==
    /\ dl.pc = "select" /\ dl.fails = 2
    /\ dl.delay = [kind |-> "backoff", retry |-> 1]
    /\ dl.etag = "" /\ dl.inm = "" /\ dl.f

(***************************************************************************)
(* min and max                                                             *)
(***************************************************************************)
\* C33: min of a collection that is not empty is the first element of the
\* sorted collection and max the last one, also when null is an element;
\* both are undefined for the empty collection
C33_MinMax ==
    agg.op \in {"min", "max"} =>
        IF agg.a = << >> THEN ~agg.defined
        ELSE /\ agg.defined
             /\ agg.v = IF agg.op = "min" THEN Sorted(agg.a)[1]
                        ELSE Sorted(agg.a)[Len(agg.a)]

(***************************************************************************)
(* Registrations and Abort                                                 *)
(***************************************************************************)
\* transaction x was aborted: it is stale and the engine never committed it
Aborted(x) == txns[x].write /\ txns[x].st = "stale" /\ txns[x].cseq = 0
C34_Step ==
    \A x \in Xids :
        (txns[x].write /\ txns[x].st = "open" /\ Aborted(x)')
            => /\ triggers' = triggers
               /\ txns'[x].reg = txns[x].reg
\* C34: Abort leaves the registry as Register and Unregister made it, so a
\* handle registered in the aborted transaction is still registered, and
\* every commit that gets to its dispatch has called every registered handle
\* once when the dispatch loop is done
C34_RegistrationStays ==
    /\ [][C34_Step]_vars
    /\ [](\A t \in Threads : pc[t] = "c_unlock_w" =>
                \A h \in triggers : fired[cur[t]][h] = 1)
\* the commit of a later transaction has called a handle that was
\* registered in a transaction that was aborted
C34_Witness ==
    \E t \in Threads, x \in Xids, h \in Handles :
        /\ pc[t] = "c_unlock_w" /\ x # cur[t]
        /\ Aborted(x) /\ h \in txns[x].reg
        /\ fired[cur[t]][h] = 1

(***************************************************************************)
(* The GC goroutine after Close                                            *)
(***************************************************************************)
\* Close has returned and the store was not opened again
Closed == life.ticker = "stopped" /\ life.engine = "closed"
C35_Step == Closed => ~GCRun
\* C35: once Close has returned the GC goroutine does not call
\* RunValueLogGC any more, whether or not a tick was waiting in the
\* ticker's channel when Close stopped the ticker
C35_NoGCAfterClose == [][C35_Step]_vars

(***************************************************************************)
(* New that fails in init                                                  *)
(***************************************************************************)
\* the last call was a New that failed, and the directory holds metadata
FailedOpen == ret.op = "New" /\ ret.err # OK /\ meta.found
C36_Step ==
    \A parts \in LPartSets :
        New(parts) =>
            /\ (checkPartitions(parts) = OK /\ ret'.err # OK)
                    => meta' = meta /\ db' = db
            /\ (/\ FailedOpen
                /\ meta.schema_version = supportedSchemaVersion
                /\ parts \cup {systemPartition} = meta.partitions)
                    => ret'.err = OK /\ life'.engine = "open"
\* C36: a New that fails in init leaves the persisted metadata and data as
\* they were, and when the persisted schema version is the supported one
\* the next New with the persisted partitions succeeds
C36_FailedOpenKeeps == [][C36_Step]_vars
\* a New has failed in init on a directory that holds data and metadata of
\* the supported schema version
C36_Witness ==
    /\ FailedOpen /\ life.engine = "closed"
    /\ meta.schema_version = supportedSchemaVersion
    /\ db # {}
C36_AnyStep ==
    \A parts \in LPartSets :
        (New(parts) /\ FailedOpen /\ parts \cup {systemPartition} = meta.partitions)
            => ret'.err = OK
\* C36 as stated: after a New that failed in init, whatever the reason, the
\* next New with the persisted partitions succeeds
C36_NextOpenSucceeds == [][C36_AnyStep]_vars

(***************************************************************************)
(* The compiler after Manager.Start                                        *)
(***************************************************************************)
\* Manager.Start has passed its m.setCompiler
CompilerSet ==
    \/ mgr.pc \in {"plugins", "txn", "register", "commit"}
    \/ mgr.pc = "returned" /\ mgr.err \in {OK, PluginErr}
C37_Step == (GetCompiler /\ CompilerSet) => ret'.val # NoCompiler
C38_StartBeforeReconfigure ==
    \A n \in PluginNames :
        disc.plugins[n].registered => ~disc.plugins[n].early

(***************************************************************************)
(* Downloader.Stop                                                         *)
(***************************************************************************)
\* C39: every call of Stop returns in the end, whether or not Start was
\* called, whether or not Stop was called before, and whatever the loop is
\* doing at the time of the call
C39_StopReturns ==
    \A s \in Stoppers : (dl.stop[s] = "send") ~> (dl.stop[s] = "returned")

================================================================================
